---------------------------- MODULE Spec2Model ----------------------------
(***************************************************************************)
(* A model of the sqlair front end: the lexer (internal/parse/lexer.go),   *)
(* the Pratt parser, the expression tree with Walk, and statement          *)
(* preparation (Prepare, typesForStatement, interpret).                    *)
(*                                                                         *)
(* Text is a sequence of bytes, each byte written as a one-character      *)
(* string.  Offsets are zero-based byte indexes as in the Go code, so the *)
(* Go slice input[a:b] is SubSeq(input, a + 1, b).                         *)
(***************************************************************************)
EXTENDS Naturals, Sequences, FiniteSets

VARIABLES
    pc,         \* position of the running operation
    l,          \* SpecLex: the lexer under test
    toks,       \* SpecLex: the tokens NextToken has returned so far
    stmt,       \* Spec: Prepare's statement text
    args,       \* Spec, SpecTypes: the argument list
    runRes,     \* Spec: what parser.Run() returned
    typesRes,   \* Spec, SpecTypes: what typesForStatement returned
    interpRes,  \* Spec: what interpret returned
    ret,        \* Spec: what Prepare returned
    stages,     \* Spec: the stages Prepare has called, in call order
    tree,       \* SpecWalk: the expression tree walked
    failing,    \* SpecWalk: the paths of the nodes visit fails on
    walkRes,    \* SpecWalk: what Walk returned
    variant,    \* SpecWs: the statement with other white space
    variantToks,\* SpecWs: the tokens of variant
    variantRes, \* SpecWs: what Run returned for variant
    rendered,   \* SpecAst: what String returned for the root
    extents,    \* SpecAst: Begin and End of every node of the tree
    parser,        \* SpecRun: the Parser Run is called on
    rootChildren,  \* SpecRun: the children of exp in Run
    groupChildren, \* SpecRun: the children of g in parseGroup
    commas,        \* SpecRun: consecutiveCommas in parseGroup
    readers     \* SpecShared: the calls that read the tree at the same time

lexVars == <<l, toks>>
prepVars == <<stmt, runRes, interpRes, ret, stages>>
typesVars == <<args, typesRes>>
walkVars == <<tree, failing, walkRes>>
wsVars == <<variant, variantToks, variantRes>>
astVars == <<rendered, extents>>
runVars == <<parser, rootChildren, groupChildren, commas>>
sharedVars == <<readers>>
vars == <<pc, lexVars, prepVars, typesVars, walkVars, wsVars,
         astVars,
         runVars,
         sharedVars>>

(***************************************************************************)
(* Bounds of the model.                                                    *)
(***************************************************************************)
MaxInputLen == 4
MaxEofCalls == 2
MaxFragments == 3
MaxPrepareArgs == 2
MaxArgs == 4
MaxFailing == 1
MaxParseFragments == 4
MaxWsLen == 4
MaxReaders == 2
MaxSharedFragments == 2

(***************************************************************************)
(* Runes.                                                                  *)
(***************************************************************************)
NUL == "NUL"
RuneError == "U+FFFD"
EAcute == "U+00E9"

IsSpace(c) == c \in {" ", "\n", "\t", "\r"}

IsLetter(c) ==
    c \in {"a", "b", "x", "P", "A", "E", "O", "T", "n", "o", "s", "l", EAcute}

isDigit(c) == c \in {"0", "1", "2", "3", "5", "6"}

knownRuneTokens ==
    [c \in {"(", ")", "[", "]", ",", "&", ".", "*", "$", "=", ";"} |->
        CASE c = "(" -> "LPAREN"
          [] c = ")" -> "RPAREN"
          [] c = "[" -> "LBRACKET"
          [] c = "]" -> "RBRACKET"
          [] c = "," -> "COMMA"
          [] c = "&" -> "BITAND"
          [] c = "." -> "PERIOD"
          [] c = "*" -> "ASTERISK"
          [] c = "$" -> "DOLLAR"
          [] c = "=" -> "EQUAL"
          [] c = ";" -> "SEMICOLON"]

(***************************************************************************)
(* utf8.DecodeRuneInString and string(rune), for the bytes the model uses: *)
(* ASCII bytes are runes of size 1; the byte pair 0xC3 0xA9 is the letter  *)
(* U+00E9; any other use of these two bytes is invalid UTF-8 and decodes   *)
(* to RuneError (U+FFFD) of size 1, which string() encodes in three bytes. *)
(***************************************************************************)
DecodeRuneInString(s) ==
    IF s[1] = "0xC3" /\ Len(s) >= 2 /\ s[2] = "0xA9"
    THEN [r |-> EAcute, size |-> 2]
    ELSE IF s[1] \in {"0xC3", "0xA9"}
         THEN [r |-> RuneError, size |-> 1]
         ELSE [r |-> s[1], size |-> 1]

RuneString(r) ==
    CASE r = EAcute    -> <<"0xC3", "0xA9">>
      [] r = RuneError -> <<"0xEF", "0xBF", "0xBD">>
      [] OTHER         -> <<r>>

Position(offset, line, column) ==
    [Offset |-> offset, Line |-> line, Column |-> column]

Token(type, literal, pos) == [Type |-> type, Literal |-> literal, Pos |-> pos]

(***************************************************************************)
(* strings.TrimSpace: leading and trailing white space removed.            *)
(***************************************************************************)
RECURSIVE TrimLeft(_)
TrimLeft(s) ==
    IF s # <<>> /\ IsSpace(Head(s)) THEN TrimLeft(Tail(s)) ELSE s

RECURSIVE TrimRight(_)
TrimRight(s) ==
    IF s # <<>> /\ IsSpace(s[Len(s)])
    THEN TrimRight(SubSeq(s, 1, Len(s) - 1))
    ELSE s

TrimSpace(s) == TrimRight(TrimLeft(s))

(***************************************************************************)
(* The lexer.                                                              *)
(***************************************************************************)
\* A lexer that goes on counting columns across a newline.
nextCharKeepsColumn(lx) ==
    IF lx.readOffset >= Len(lx.input)
    THEN [lx EXCEPT !.char = NUL, !.offset = lx.readOffset]
    ELSE LET d == DecodeRuneInString(
                      SubSeq(lx.input, lx.readOffset + 1, Len(lx.input)))
         IN  [lx EXCEPT !.char = d.r,
                        !.line = IF d.r = "\n" THEN @ + 1 ELSE @,
                        !.column = @ + 1,
                        !.offset = lx.readOffset,
                        !.readOffset = @ + d.size]

nextChar(lx) ==
    IF lx.readOffset >= Len(lx.input)
    THEN [lx EXCEPT !.char = NUL, !.offset = lx.readOffset]
    ELSE LET d == DecodeRuneInString(
                      SubSeq(lx.input, lx.readOffset + 1, Len(lx.input)))
         IN  [lx EXCEPT !.char = d.r,
                        !.line = IF d.r = "\n" THEN @ + 1 ELSE @,
                        !.column = (IF d.r = "\n" THEN 0 ELSE @) + 1,
                        !.offset = lx.readOffset,
                        !.readOffset = @ + d.size]

peek(lx) ==
    IF lx.readOffset >= Len(lx.input)
    THEN NUL
    ELSE DecodeRuneInString(
             SubSeq(lx.input, lx.readOffset + 1, Len(lx.input))).r

NewLexer(input) ==
    nextChar([input |-> TrimSpace(input), char |-> NUL, offset |-> 0,
              readOffset |-> 0, line |-> 1, column |-> 1])

position(lx) == Position(lx.offset, lx.line, lx.column - 1)

RECURSIVE skipWhitespace(_)

\* A lexer that skips spaces only.
skipWhitespaceSpacesOnly(lx) ==
    IF lx.char = " " THEN skipWhitespace(nextChar(lx)) ELSE lx

skipWhitespace(lx) ==
    IF IsSpace(lx.char) THEN skipWhitespace(nextChar(lx)) ELSE lx

RECURSIVE readIdentifierLoop(_)
readIdentifierLoop(lx) ==
    IF IsLetter(lx.char) \/ isDigit(lx.char) \/ lx.char = "_"
    THEN readIdentifierLoop(nextChar(lx))
    ELSE lx

readIdentifier(lx) ==
    LET lx2 == readIdentifierLoop(lx)
    IN  [lex |-> lx2, lit |-> SubSeq(lx.input, lx.offset + 1, lx2.offset)]

RECURSIVE readStringLoop(_, _, _)
readStringLoop(lx, r, maybeCloser) ==
    IF lx.char = NUL
    THEN nextChar(lx)
    ELSE IF lx.char = r
         THEN IF ~maybeCloser /\ peek(lx) # r
              THEN nextChar(lx)
              ELSE readStringLoop(nextChar(lx), r, ~maybeCloser)
         ELSE readStringLoop(nextChar(lx), r, maybeCloser)

readString(lx, r) ==
    LET lx2 == readStringLoop(lx, r, TRUE)
    IN  [lex |-> lx2, lit |-> SubSeq(lx.input, lx.offset + 1, lx2.offset)]

\* A number scanner without the look-ahead for a second decimal point.
RECURSIVE readNumberLoopNoPeek(_, _)
readNumberLoopNoPeek(lx, oneDecimal) ==
    IF isDigit(lx.char) \/ lx.char = "."
    THEN readNumberLoopNoPeek(nextChar(lx), oneDecimal \/ lx.char = ".")
    ELSE lx

RECURSIVE readNumberLoop(_, _)
readNumberLoop(lx, oneDecimal) ==
    IF isDigit(lx.char) \/ lx.char = "."
    THEN LET od == oneDecimal \/ lx.char = "."
         IN  IF od /\ peek(lx) = "."
             THEN nextChar(lx)
             ELSE readNumberLoop(nextChar(lx), od)
    ELSE lx

readNumber(lx) ==
    LET lx2 == readNumberLoop(lx, FALSE)
    IN  [lex |-> lx2, lit |-> SubSeq(lx.input, lx.offset + 1, lx2.offset)]

\* A lexer that consumes the character it reports as end of input.
readComplexTokenConsumesNul(lx, pos) ==
    CASE lx.char = NUL ->
            [lex |-> nextChar(lx), tok |-> Token("EOF", <<>>, pos)]
      [] isDigit(lx.char) ->
            LET n == readNumber(lx)
            IN  [lex |-> n.lex, tok |-> Token("NUM", n.lit, pos)]
      [] IsLetter(lx.char) \/ lx.char = "_" ->
            LET n == readIdentifier(lx)
            IN  [lex |-> n.lex, tok |-> Token("IDENT", n.lit, pos)]
      [] lx.char = "'" ->
            LET n == readString(lx, lx.char)
            IN  [lex |-> n.lex, tok |-> Token("STRING", n.lit, pos)]
      [] OTHER ->
            [lex |-> nextChar(lx), tok |-> Token("UNKNOWN", RuneString(lx.char), pos)]

readComplexToken(lx, pos) ==
    CASE lx.char = NUL ->
            [lex |-> lx, tok |-> Token("EOF", <<>>, pos)]
      [] isDigit(lx.char) ->
            LET n == readNumber(lx)
            IN  [lex |-> n.lex, tok |-> Token("NUM", n.lit, pos)]
      [] IsLetter(lx.char) \/ lx.char = "_" ->
            LET n == readIdentifier(lx)
            IN  [lex |-> n.lex, tok |-> Token("IDENT", n.lit, pos)]
      [] lx.char = "'" ->
            LET n == readString(lx, lx.char)
            IN  [lex |-> n.lex, tok |-> Token("STRING", n.lit, pos)]
      [] OTHER ->
            [lex |-> nextChar(lx), tok |-> Token("UNKNOWN", RuneString(lx.char), pos)]

NextToken(lx0) ==
    LET lx  == skipWhitespace(lx0)
        pos == position(lx)
    IN  IF lx.char \in DOMAIN knownRuneTokens
        THEN [lex |-> nextChar(lx),
              tok |-> Token(knownRuneTokens[lx.char], RuneString(lx.char), pos)]
        ELSE readComplexToken(lx, pos)

(***************************************************************************)
(* Expressions.  A Go nil Expression is NilExpression; the parser stores   *)
(* one wherever a parse function returned nil.                             *)
(***************************************************************************)
NilExpression == [kind |-> "nil"]

IdentityExpression(t) == [kind |-> "Identity", token |-> t]

\* An output target built with its name and field exchanged.
NewOutputTargetExpressionSwapped(marker, name, field) ==
    [kind |-> "OutputTarget", marker |-> marker, name |-> field, field |-> name]

NewOutputTargetExpression(marker, name, field) ==
    [kind |-> "OutputTarget", marker |-> marker, name |-> name, field |-> field]

NewInputSourceExpression(marker, name, field) ==
    [kind |-> "InputSource", marker |-> marker, name |-> name, field |-> field]

SQLExpression(children) == [kind |-> "SQL", children |-> children]

GroupedColumnsExpression(children) ==
    [kind |-> "GroupedColumns", children |-> children]

PassThroughExpression(children) ==
    [kind |-> "PassThrough", children |-> children]

\* SimpleExpression of the testing package: a bare node with children.
SimpleExpression(t, e) == [kind |-> "Simple", T |-> t, E |-> e]

Expressions(e) ==
    CASE e.kind \in {"SQL", "GroupedColumns", "PassThrough"} -> e.children
      [] e.kind \in {"OutputTarget", "InputSource"} -> <<e.name, e.field>>
      [] e.kind = "Simple" -> e.E
      [] OTHER -> <<>>

\* What String returns: the text, or the panic of a method call on a nil
\* expression.
Text(t) == [text |-> t, panic |-> "none"]

NilString == [text |-> <<>>, panic |-> "nil dereference"]

WriteString(a, b) ==
    IF a.panic # "none"
    THEN a
    ELSE IF b.panic # "none" THEN b ELSE Text(a.text \o b.text)

RECURSIVE String(_)
RECURSIVE StringJoin(_, _, _)

\* The loop of the String methods of the parent expressions: the strings
\* of the children from the i-th on, sep written before every child but
\* the first.
StringJoin(children, i, sep) ==
    IF i > Len(children)
    THEN Text(<<>>)
    ELSE WriteString(Text(IF i > 1 THEN sep ELSE <<>>),
                     WriteString(String(children[i]),
                                 StringJoin(children, i + 1, sep)))

String(e) ==
    CASE e.kind = "nil" -> NilString
      [] e.kind = "Identity" -> Text(e.token.Literal)
      [] e.kind \in {"OutputTarget", "InputSource"} ->
            WriteString(Text(e.marker.Literal),
                WriteString(String(e.name),
                    WriteString(Text(<<".">>), String(e.field))))
      [] e.kind = "SQL" -> StringJoin(e.children, 1, <<" ">>)
      [] e.kind = "GroupedColumns" ->
            WriteString(Text(<<"(">>),
                WriteString(StringJoin(e.children, 1, <<",", " ">>),
                            Text(<<")">>)))
      [] e.kind = "PassThrough" -> StringJoin(e.children, 1, <<>>)

\* What Begin and End return: the position, or the panic of a method call
\* on a nil expression.
Pos(pos) == [pos |-> pos, panic |-> "none"]

ZeroPosition == Position(0, 0, 0)

NilPosition == [pos |-> ZeroPosition, panic |-> "nil dereference"]

RECURSIVE Begin(_)
RECURSIVE End(_)

Begin(e) ==
    CASE e.kind = "nil" -> NilPosition
      [] e.kind = "Identity" -> Pos(e.token.Pos)
      [] e.kind \in {"OutputTarget", "InputSource"} -> Pos(e.marker.Pos)
      [] e.kind \in {"SQL", "GroupedColumns", "PassThrough"} ->
            IF Len(e.children) > 0
            THEN Begin(e.children[1])
            ELSE Pos(ZeroPosition)

End(e) ==
    CASE e.kind = "nil" -> NilPosition
      [] e.kind = "Identity" ->
            Pos(Position(e.token.Pos.Offset + Len(e.token.Literal), 0, 0))
      [] e.kind \in {"OutputTarget", "InputSource"} -> End(e.field)
      [] e.kind \in {"SQL", "GroupedColumns", "PassThrough"} ->
            IF Len(e.children) > 0
            THEN End(e.children[Len(e.children)])
            ELSE Pos(ZeroPosition)

(***************************************************************************)
(* The parser.  Its state is a record: the lexer, the two-token buffer,    *)
(* the accumulated error messages, and panic, which is "none" until a Go   *)
(* run-time panic (a failed type assertion) ends the call.  Each parse     *)
(* function returns the state it leaves and the expression it returns.     *)
(***************************************************************************)
LOWEST == 0
HIGHEST == 1

precedence(t) ==
    IF t.Type \in {"RBRACKET", "PERIOD", "RPAREN"} THEN HIGHEST ELSE LOWEST

prefixFn ==
    [t \in {"ASTERISK", "BITAND", "DOLLAR", "EQUAL", "IDENT", "NUM",
            "SEMICOLON", "STRING", "LPAREN", "RPAREN", "COMMA"} |->
        CASE t = "BITAND" -> "parseOutputTarget"
          [] t = "DOLLAR" -> "parseInputSource"
          [] t = "NUM"    -> "parseInteger"
          [] t = "STRING" -> "parseString"
          [] t = "LPAREN" -> "parseGroup"
          [] OTHER        -> "parseIdent"]

infixFn == [t \in {"LBRACKET"} |-> "parseIndex"]

ZeroToken == Token("EOF", <<>>, Position(0, 0, 0))

Ret(ps, e) == [ps |-> ps, exp |-> e]

Panicked(ps) == ps.panic # "none"

\* A buffer shift that reads no token from the lexer.
nextTokenWithoutRead(ps) == [ps EXCEPT !.currentToken = ps.peekToken]

nextToken(ps) ==
    LET r == NextToken(ps.lex)
    IN  [ps EXCEPT !.currentToken = ps.peekToken,
                   !.peekToken = r.tok,
                   !.lex = r.lex]

NewParser(lx) ==
    nextToken(nextToken([lex |-> lx, errors |-> <<>>,
                         currentToken |-> ZeroToken, peekToken |-> ZeroToken,
                         panic |-> "none"]))

UnexpectedError(tok, lit, expecting) ==
    [line |-> tok.Pos.Line, column |-> tok.Pos.Column,
     unexpected |-> lit, expecting |-> expecting]

AddError(ps, e) == [ps EXCEPT !.errors = Append(@, e)]

parseIdent(ps) == Ret(ps, IdentityExpression(ps.currentToken))

parseString(ps) == Ret(ps, IdentityExpression(ps.currentToken))

parseInteger(ps) == Ret(ps, IdentityExpression(ps.currentToken))

parseIndex(ps, left) ==
    Ret(ps, PassThroughExpression(
                <<left, IdentityExpression(ps.currentToken)>>))

\* x.(*IdentityExpression): panics unless x holds an *IdentityExpression.
AssertIdentity(r) ==
    IF Panicked(r.ps) \/ r.exp.kind = "Identity"
    THEN r
    ELSE Ret([r.ps EXCEPT !.panic = "type assertion"], NilExpression)

RECURSIVE parseExpression(_, _)
RECURSIVE parseInfixLoop(_, _, _)
RECURSIVE parseOutputTarget(_)
RECURSIVE parseInputSource(_)
RECURSIVE parseGroup(_)
RECURSIVE parseGroupLoop(_, _, _)

\* p.parseExpression(p.precedence(p.currentToken))
parseOperand(ps) == parseExpression(ps, precedence(ps.currentToken))

parseInfixNext(r, prec_level) == parseInfixLoop(r.ps, r.exp, prec_level)

parseInfixLoop(ps, left, prec_level) ==
    IF prec_level < precedence(ps.peekToken)
    THEN IF ps.peekToken.Type \notin DOMAIN infixFn
         THEN Ret(ps, left)
         ELSE parseInfixNext(parseIndex(nextToken(ps), left), prec_level)
    ELSE Ret(ps, left)

parseInfix(left, prec_level) ==
    IF Panicked(left.ps)
    THEN left
    ELSE parseInfixLoop(left.ps, left.exp, prec_level)

parsePrefix(fn, ps) ==
    CASE fn = "parseOutputTarget" -> parseOutputTarget(ps)
      [] fn = "parseInputSource"  -> parseInputSource(ps)
      [] fn = "parseGroup"        -> parseGroup(ps)
      [] fn = "parseInteger"      -> parseInteger(ps)
      [] fn = "parseString"       -> parseString(ps)
      [] OTHER                    -> parseIdent(ps)

parseExpression(ps, prec_level) ==
    IF ps.currentToken.Type \notin DOMAIN prefixFn
    THEN Ret(ps, NilExpression)
    ELSE parseInfix(parsePrefix(prefixFn[ps.currentToken.Type], ps), prec_level)

\* parseOutputTarget once the field has been parsed and asserted.
parseOutputTargetField(marker, name, field) ==
    IF Panicked(field.ps)
    THEN field
    ELSE Ret(field.ps, NewOutputTargetExpression(marker, name, field.exp))

\* parseOutputTarget with the token after the name as currentToken.
parseOutputTargetPeriod(marker, name, ps) ==
    IF ps.currentToken.Type # "PERIOD"
    THEN Ret(AddError(ps, UnexpectedError(ps.currentToken,
                              ps.currentToken.Literal, "PERIOD")),
             NilExpression)
    ELSE parseOutputTargetField(
             marker, name, AssertIdentity(parseOperand(nextToken(ps))))

\* parseOutputTarget once the name has been parsed and asserted.
parseOutputTargetName(marker, name) ==
    IF Panicked(name.ps)
    THEN name
    ELSE parseOutputTargetPeriod(marker, name.exp, nextToken(name.ps))

parseOutputTarget(ps) ==
    parseOutputTargetName(
        ps.currentToken, AssertIdentity(parseOperand(nextToken(ps))))

parseInputSourceField(marker, name, field) ==
    IF Panicked(field.ps)
    THEN field
    ELSE Ret(field.ps, NewInputSourceExpression(marker, name, field.exp))

parseInputSourceName(marker, name) ==
    IF Panicked(name.ps)
    THEN name
    ELSE parseInputSourceField(
             marker, name.exp,
             AssertIdentity(parseOperand(nextToken(nextToken(name.ps)))))

parseInputSource(ps) ==
    parseInputSourceName(
        ps.currentToken, AssertIdentity(parseOperand(nextToken(ps))))

\* parseGroup's loop after g.AppendExpression(p.parseExpression(LOWEST)).
parseGroupAppend(r, children) ==
    IF Panicked(r.ps)
    THEN r
    ELSE parseGroupLoop(nextToken(r.ps), Append(children, r.exp), 0)

parseGroupLoop(ps, children, consecutiveCommas) ==
    IF ps.currentToken.Type # "RPAREN" /\ ps.currentToken.Type # "EOF"
    THEN IF ps.currentToken.Type # "COMMA"
         THEN parseGroupAppend(parseExpression(ps, LOWEST), children)
         ELSE IF consecutiveCommas + 1 > 1
              THEN Ret(AddError(ps, UnexpectedError(ps.currentToken,
                                        <<",">>, "LITERAL")),
                       NilExpression)
              ELSE parseGroupLoop(nextToken(ps), children,
                                  consecutiveCommas + 1)
    ELSE IF ps.currentToken.Type = "EOF"
         THEN Ret(AddError(ps, UnexpectedError(ps.currentToken,
                                   <<"E", "O", "F">>, ")")),
                  NilExpression)
         ELSE Ret(ps, GroupedColumnsExpression(children))

parseGroupBody(ps) ==
    IF ps.currentToken.Type = "RPAREN"
    THEN Ret(AddError(ps, UnexpectedError(ps.currentToken, <<")">>, "LITERAL")),
             NilExpression)
    ELSE parseGroupLoop(ps, <<>>, 1)

parseGroup(ps) == parseGroupBody(nextToken(ps))

\* One iteration of Run's loop: parse an expression, append it, advance.
RunAppend(r, children) ==
    IF Panicked(r.ps)
    THEN [ps |-> r.ps, children |-> children]
    ELSE [ps |-> nextToken(r.ps), children |-> Append(children, r.exp)]

RunIteration(ps, children) == RunAppend(parseExpression(ps, LOWEST), children)

RECURSIVE RunLoop(_, _)

RunLoopNext(r) == RunLoop(r.ps, r.children)

RunLoop(ps, children) ==
    IF ps.currentToken.Type # "EOF" /\ ~Panicked(ps)
    THEN RunLoopNext(RunIteration(ps, children))
    ELSE [ps |-> ps, children |-> children]

EmptyStatementError == [line |-> 0, column |-> 0,
                        unexpected |-> <<>>, expecting |-> "Empty statement"]

RunStart(ps) ==
    IF ps.currentToken.Type = "EOF" THEN AddError(ps, EmptyStatementError) ELSE ps

NoError == [kind |-> "nil"]

ParseError(msgs) == [kind |-> "parse", msgs |-> msgs]

\* What Run returns once its loop has ended: (nil, err) or (&exp, nil);
\* nothing is returned when the loop ended in a panic.
RunReturn(ps, children) ==
    IF Panicked(ps)
    THEN [exp |-> NilExpression, err |-> NoError, panic |-> ps.panic]
    ELSE IF Len(ps.errors) > 0
         THEN [exp |-> NilExpression, err |-> ParseError(ps.errors),
               panic |-> "none"]
         ELSE [exp |-> SQLExpression(children), err |-> NoError,
               panic |-> "none"]

RunEnd(r) == RunReturn(r.ps, r.children)

Run(ps) == RunEnd(RunLoop(RunStart(ps), <<>>))

(***************************************************************************)
(* Walk.  The visit function is given as a record: the closure interpret   *)
(* passes ("interpret", with its argTypes and, as state, its seen set) or  *)
(* a function that fails on chosen nodes ("failing").  A node is named by  *)
(* its path, the child indexes from the root.  Walk returns the visit      *)
(* state it leaves, the error it returns, the paths visit was called on    *)
(* in call order, and whether it ended in a nil dereference.               *)
(***************************************************************************)
NewErrTypeNameNotUnique(name) == [kind |-> "ErrTypeNameNotUnique", name |-> name]

NewErrTypeInfoNotPresent(name) == [kind |-> "ErrTypeInfoNotPresent", name |-> name]

NewErrSuperfluousType(name) == [kind |-> "ErrSuperfluousType", name |-> name]

VisitError(path) == [kind |-> "visit", path |-> path]

IsError(err) == err.kind # "nil"

TypeName(e) == e.name

IdentityString(e) == e.token.Literal

validateExpressionType(e, argTypes, seen) ==
    LET typeName == IdentityString(TypeName(e))
    IN  IF typeName \notin DOMAIN argTypes
        THEN [st |-> seen, err |-> NewErrTypeInfoNotPresent(typeName)]
        ELSE [st |-> seen \cup {typeName}, err |-> NoError]

interpretVisit(e, argTypes, seen) ==
    IF e.kind \in {"OutputTarget", "InputSource"}
    THEN validateExpressionType(e, argTypes, seen)
    ELSE [st |-> seen, err |-> NoError]

visit(v, e, path, st) ==
    IF v.kind = "interpret"
    THEN interpretVisit(e, v.argTypes, st)
    ELSE [st |-> st,
          err |-> IF path \in v.failing THEN VisitError(path) ELSE NoError]

WalkStart(st) == [st |-> st, err |-> NoError, log |-> <<>>, panic |-> "none"]

RECURSIVE Walk(_, _, _, _)
RECURSIVE WalkChildren(_, _, _, _, _)

\* A loop over the children that goes on after a child's walk failed.
WalkNextChildKeepGoing(children, i, path, v, r) ==
    IF r.panic # "none"
    THEN r
    ELSE WalkChildren(children, i + 1, path, v, r)

\* Walk's loop after Walk(child, visit) has returned r for child i.
WalkNextChild(children, i, path, v, r) ==
    IF IsError(r.err) \/ r.panic # "none"
    THEN r
    ELSE WalkChildren(children, i + 1, path, v, r)

WalkChildren(children, i, path, v, w) ==
    IF i > Len(children)
    THEN w
    ELSE WalkNextChild(children, i, path, v,
                       Walk(children[i], Append(path, i), v, w))

\* Walk after visit(parent) has returned r; parent.Expressions() on a nil
\* Expression is a nil dereference.
WalkVisited(parent, path, v, w, r) ==
    IF IsError(r.err)
    THEN [w EXCEPT !.st = r.st, !.log = Append(@, path), !.err = r.err]
    ELSE IF parent.kind = "nil"
         THEN [w EXCEPT !.st = r.st, !.log = Append(@, path),
                        !.panic = "nil dereference"]
         ELSE WalkChildren(Expressions(parent), 1, path, v,
                           [w EXCEPT !.st = r.st, !.log = Append(@, path)])

Walk(parent, path, v, w) ==
    WalkVisited(parent, path, v, w, visit(v, parent, path, w.st))

(***************************************************************************)
(* Statement preparation.                                                  *)
(***************************************************************************)
\* The argument values the model passes to Prepare, and what the reflection
\* cache returns for each: an Info with a name, or an error.
ArgValues == {"P{}", "other.P{}", "A{}", "E{}", "BadTag{}"}

ReflectName(arg) ==
    CASE arg = "P{}"       -> <<"P">>
      [] arg = "other.P{}" -> <<"P">>
      [] arg = "A{}"       -> <<"A">>
      [] arg = "E{}"       -> <<"E">>

Reflect(arg) ==
    IF arg = "BadTag{}"
    THEN [info |-> [name |-> <<>>, of |-> arg],
          err |-> [kind |-> "reflect", of |-> arg]]
    ELSE [info |-> [name |-> ReflectName(arg), of |-> arg], err |-> NoError]

EmptyTypeMap == << >>

MapPut(m, k, val) == [n \in DOMAIN m \cup {k} |-> IF n = k THEN val ELSE m[n]]

RECURSIVE typesForStatementLoop(_, _, _)

\* A table builder that overwrites an entry instead of rejecting the name.
typesForStatementLoopOverwrite(argList, i, argTypes) ==
    IF i > Len(argList)
    THEN [argTypes |-> argTypes, isNil |-> FALSE, err |-> NoError,
          reflected |-> Len(argList)]
    ELSE LET r == Reflect(argList[i])
         IN  IF IsError(r.err)
             THEN [argTypes |-> EmptyTypeMap, isNil |-> TRUE, err |-> r.err,
                   reflected |-> i]
             ELSE typesForStatementLoop(
                      argList, i + 1, MapPut(argTypes, r.info.name, r.info))

\* A table builder that goes on with the next argument after an argument
\* whose reflection failed.
typesForStatementLoopSkipFailed(argList, i, argTypes) ==
    IF i > Len(argList)
    THEN [argTypes |-> argTypes, isNil |-> FALSE, err |-> NoError,
          reflected |-> Len(argList)]
    ELSE LET r == Reflect(argList[i])
         IN  IF IsError(r.err)
             THEN typesForStatementLoop(argList, i + 1, argTypes)
             ELSE IF r.info.name \in DOMAIN argTypes
                  THEN [argTypes |-> EmptyTypeMap, isNil |-> TRUE,
                        err |-> NewErrTypeNameNotUnique(r.info.name),
                        reflected |-> i]
                  ELSE typesForStatementLoop(
                           argList, i + 1, MapPut(argTypes, r.info.name, r.info))

typesForStatementLoop(argList, i, argTypes) ==
    IF i > Len(argList)
    THEN [argTypes |-> argTypes, isNil |-> FALSE, err |-> NoError,
          reflected |-> Len(argList)]
    ELSE LET r == Reflect(argList[i])
         IN  IF IsError(r.err)
             THEN [argTypes |-> EmptyTypeMap, isNil |-> TRUE, err |-> r.err,
                   reflected |-> i]
             ELSE IF r.info.name \in DOMAIN argTypes
                  THEN [argTypes |-> EmptyTypeMap, isNil |-> TRUE,
                        err |-> NewErrTypeNameNotUnique(r.info.name),
                        reflected |-> i]
                  ELSE typesForStatementLoop(
                           argList, i + 1, MapPut(argTypes, r.info.name, r.info))

typesForStatement(argList) == typesForStatementLoop(argList, 1, EmptyTypeMap)

\* interpret after Walk has returned w.  Go ranges over the map argTypes in
\* an unspecified order, so any name not seen may be the one reported: the
\* result is the set of the outcomes the call can have.
interpretWalked(argTypes, w) ==
    IF w.panic # "none"
    THEN {[err |-> NoError, panic |-> w.panic]}
    ELSE IF IsError(w.err)
         THEN {[err |-> w.err, panic |-> "none"]}
         ELSE IF DOMAIN argTypes \subseteq w.st
              THEN {[err |-> NoError, panic |-> "none"]}
              ELSE {[err |-> NewErrSuperfluousType(name), panic |-> "none"] :
                        name \in DOMAIN argTypes \ w.st}

interpret(statementExp, argTypes) ==
    interpretWalked(argTypes,
                    Walk(statementExp, <<>>,
                         [kind |-> "interpret", argTypes |-> argTypes],
                         WalkStart({})))

(***************************************************************************)
(* SpecLex: a lexer is built over an input and NextToken is called again   *)
(* and again, as tokensForStatement does; toks records what it returned.   *)
(***************************************************************************)
SeqsUpTo(S, n) == UNION {[1..k -> S] : k \in 0..n}

LexAlphabet == {"1", ".", "a", "'", " ", "\n", "#", NUL}

LexNamedInputs ==
    { <<"1", ".", "2", ".", "3">>,
      <<"1", "0", "0", "0", "0", "0", ".", "5", ".", "6">>,
      <<"'", "O", "n", "o", "s", " ", "T", "'", "'", "o", "o", "l", "a", "n", "'">>,
      <<"'", "'", "'", " ", "'", "'", "'">>,
      <<"s", " ", "'", "s">>,
      <<"'", "a", NUL, "b", "'", " ", "a">>,
      <<"0xC3", "a">>, <<"#", "0xC3", "0xA9">>, <<"a", "0xA9", "#">>,
      <<"0xC3", "0xA9", " ", "a", "\n", "0xC3", "0xA9", "1", " ", "#">> }

LexInputs == SeqsUpTo(LexAlphabet, MaxInputLen) \cup LexNamedInputs

RECURSIVE EofCount(_)
EofCount(ts) ==
    IF ts = <<>> THEN 0
    ELSE (IF Head(ts).Type = "EOF" THEN 1 ELSE 0) + EofCount(Tail(ts))

NotRun == [kind |-> "not run"]

AstIdle == /\ rendered = NotRun
           /\ extents = NotRun

RunIdle == /\ parser = NotRun
           /\ rootChildren = <<>>
           /\ groupChildren = <<>>
           /\ commas = 0

SharedIdle == /\ readers = <<>>

LexIdle == /\ l = NotRun
           /\ toks = <<>>

PrepareIdle == /\ stmt = <<>>
               /\ runRes = NotRun
               /\ interpRes = NotRun
               /\ ret = NotRun
               /\ stages = <<>>

TypesIdle == /\ args = <<>>
             /\ typesRes = NotRun

WalkIdle == /\ tree = NotRun
            /\ failing = {}
            /\ walkRes = NotRun

WsIdle == /\ variant = <<>>
          /\ variantToks = <<>>
          /\ variantRes = NotRun

InitLex ==
    /\ pc = "lex"
    /\ \E input \in LexInputs : l = NewLexer(input)
    /\ toks = <<>>
    /\ PrepareIdle /\ TypesIdle /\ WalkIdle /\ WsIdle /\ AstIdle /\ RunIdle /\ SharedIdle

LexNextToken ==
    /\ pc = "lex"
    /\ EofCount(toks) < MaxEofCalls
    /\ LET r == NextToken(l)
       IN  /\ l' = r.lex
           /\ toks' = Append(toks, r.tok)
    /\ UNCHANGED <<pc, prepVars, typesVars, walkVars, wsVars,
                   astVars,
                   runVars,
                   sharedVars>>

NextLex == LexNextToken

SpecLex == InitLex /\ [][NextLex]_vars

(***************************************************************************)
(* Statements: every concatenation of a few fragments of statement text.   *)
(***************************************************************************)
Fragments ==
    { <<"&", "P", ".", "*">>, <<"$", "A", ".", "a">>, <<"x">>, <<".">>,
      <<"(">>, <<")">>, <<",">>, <<"&">>, <<"$">>, <<" ">>, <<"#">> }

RECURSIVE Flatten(_)
Flatten(ss) == IF ss = <<>> THEN <<>> ELSE Head(ss) \o Flatten(Tail(ss))

Statements(n) == {Flatten(fs) : fs \in SeqsUpTo(Fragments, n)}

(***************************************************************************)
(* Spec: one call of Prepare(stmt, args...), a stage at a time.            *)
(***************************************************************************)
ArgLists(n) == SeqsUpTo(ArgValues, n)

\* The arguments Prepare is called with.
PrepareArgValues == {"P{}", "A{}", "BadTag{}"}

Statement(expression, argTypes) ==
    [kind |-> "Statement", expression |-> expression, argTypes |-> argTypes]

NilStatement == [kind |-> "nil"]

Return(statement, err) == [statement |-> statement, err |-> err]

\* Where Prepare goes after a stage that returned err or panicked.
AfterStageContinueOnError(err, panic, next) ==
    IF panic # "none" THEN "panic" ELSE next

AfterStage(err, panic, next) ==
    IF panic # "none" THEN "panic"
    ELSE IF IsError(err) THEN "done"
    ELSE next

Init ==
    /\ pc = "Prepare"
    /\ stmt \in Statements(MaxFragments)
    /\ args \in SeqsUpTo(PrepareArgValues, MaxPrepareArgs)
    /\ runRes = NotRun
    /\ typesRes = NotRun
    /\ interpRes = NotRun
    /\ ret = NotRun
    /\ stages = <<>>
    /\ LexIdle /\ WalkIdle /\ WsIdle /\ AstIdle /\ RunIdle /\ SharedIdle

PrepareRun ==
    /\ pc = "Prepare"
    /\ runRes' = Run(NewParser(NewLexer(stmt)))
    /\ pc' = AfterStage(runRes'.err, runRes'.panic, "typesForStatement")
    /\ ret' = IF runRes'.panic = "none" /\ IsError(runRes'.err)
              THEN Return(NilStatement, runRes'.err)
              ELSE ret
    /\ stages' = Append(stages, "Run")
    /\ UNCHANGED <<stmt, args, typesRes, interpRes, lexVars, walkVars, wsVars,
                   astVars,
                   runVars,
                   sharedVars>>

PrepareTypesForStatement ==
    /\ pc = "typesForStatement"
    /\ LET r == typesForStatement(args)
       IN  /\ typesRes' = r
           /\ pc' = AfterStage(r.err, "none", "interpret")
           /\ ret' = IF IsError(r.err) THEN Return(NilStatement, r.err) ELSE ret
    /\ stages' = Append(stages, "typesForStatement")
    /\ UNCHANGED <<stmt, args, runRes, interpRes, lexVars, walkVars, wsVars,
                   astVars,
                   runVars,
                   sharedVars>>

PrepareInterpret ==
    /\ pc = "interpret"
    /\ \E r \in interpret(runRes.exp, typesRes.argTypes) :
          /\ interpRes' = r
          /\ pc' = AfterStage(r.err, r.panic, "done")
          /\ ret' = IF r.panic # "none" THEN ret
                    ELSE IF IsError(r.err) THEN Return(NilStatement, r.err)
                    ELSE Return(Statement(runRes.exp, typesRes.argTypes), NoError)
    /\ stages' = Append(stages, "interpret")
    /\ UNCHANGED <<stmt, args, runRes, typesRes, lexVars, walkVars, wsVars,
                   astVars,
                   runVars,
                   sharedVars>>

Next == PrepareRun \/ PrepareTypesForStatement \/ PrepareInterpret

Spec == Init /\ [][Next]_vars

(***************************************************************************)
(* SpecTypes: one call of typesForStatement(args).                         *)
(***************************************************************************)
InitTypes ==
    /\ pc = "typesForStatement"
    /\ args \in ArgLists(MaxArgs)
    /\ typesRes = NotRun
    /\ LexIdle /\ PrepareIdle /\ WalkIdle /\ WsIdle /\ AstIdle /\ RunIdle /\ SharedIdle

CallTypesForStatement ==
    /\ pc = "typesForStatement"
    /\ typesRes' = typesForStatement(args)
    /\ pc' = "done"
    /\ UNCHANGED <<args, lexVars, prepVars, walkVars, wsVars,
                   astVars,
                   runVars,
                   sharedVars>>

NextTypes == CallTypesForStatement

SpecTypes == InitTypes /\ [][NextTypes]_vars

(***************************************************************************)
(* SpecWalk: one call of Walk(tree, visit) on a tree the parser returned   *)
(* without error, or on the tree of TestWalk, with a visit function that   *)
(* fails on the nodes in failing.                                          *)
(***************************************************************************)
RECURSIVE PreOrder(_, _)
RECURSIVE PreOrderChildren(_, _, _)

PreOrderChildren(children, i, path) ==
    IF i > Len(children)
    THEN <<>>
    ELSE PreOrder(children[i], Append(path, i))
             \o PreOrderChildren(children, i + 1, path)

\* The paths of the nodes of a tree, each node before its descendants,
\* children left to right.
PreOrder(e, path) ==
    <<path>> \o PreOrderChildren(Expressions(e), 1, path)

RECURSIVE NodeAt(_, _)
NodeAt(e, path) ==
    IF path = <<>> THEN e ELSE NodeAt(Expressions(e)[Head(path)], Tail(path))

Range(f) == {f[i] : i \in DOMAIN f}

ParsedTrees(n) ==
    {r.exp : r \in {rr \in {Run(NewParser(NewLexer(st))) : st \in Statements(n)} :
                        rr.panic = "none" /\ ~IsError(rr.err)}}

TestWalkTree ==
    SimpleExpression("SQL",
        << SimpleExpression("InputSource",
               << SimpleExpression("PassThrough", <<>>) >>),
           SimpleExpression("Identity", <<>>),
           SimpleExpression("GroupedColumns", <<>>) >>)

WalkTrees == ParsedTrees(MaxFragments) \cup {TestWalkTree}

SubsetsUpTo(S, n) == {F \in SUBSET S : Cardinality(F) <= n}

InitWalk ==
    /\ pc = "Walk"
    /\ tree \in WalkTrees
    /\ failing \in SubsetsUpTo(Range(PreOrder(tree, <<>>)), MaxFailing)
    /\ walkRes = NotRun
    /\ LexIdle /\ PrepareIdle /\ TypesIdle /\ WsIdle /\ AstIdle /\ RunIdle /\ SharedIdle

CallWalk ==
    /\ pc = "Walk"
    /\ walkRes' = Walk(tree, <<>>, [kind |-> "failing", failing |-> failing],
                       WalkStart({}))
    /\ pc' = IF walkRes'.panic # "none" THEN "panic" ELSE "done"
    /\ UNCHANGED <<tree, failing, lexVars, prepVars, typesVars, wsVars,
                   astVars,
                   runVars,
                   sharedVars>>

NextWalk == CallWalk

SpecWalk == InitWalk /\ [][NextWalk]_vars

(***************************************************************************)
(* SpecParse: one call of Run on the parser of a statement.                *)
(***************************************************************************)
RECURSIVE tokensForStatementLoop(_)

tokensForStatementNext(r) ==
    IF r.tok.Type = "EOF"
    THEN <<>>
    ELSE <<r.tok>> \o tokensForStatementLoop(r.lex)

tokensForStatementLoop(lx) == tokensForStatementNext(NextToken(lx))

\* The tokens of a statement up to the end of input.
tokensForStatement(text) == tokensForStatementLoop(NewLexer(text))

ParseFragments ==
    { <<"&", "P", ".", "*">>, <<"$", "A", ".", "a">>, <<"x">>, <<".">>,
      <<"(">>, <<")">>, <<",">>, <<"&">>, <<"$">>, <<"1">>, <<"[">> }

ParseStatements(n) == {Flatten(fs) : fs \in SeqsUpTo(ParseFragments, n)}

InitParse ==
    /\ pc = "Run"
    /\ stmt \in ParseStatements(MaxParseFragments)
    /\ runRes = NotRun
    /\ interpRes = NotRun
    /\ ret = NotRun
    /\ stages = <<>>
    /\ LexIdle /\ TypesIdle /\ WalkIdle /\ WsIdle /\ AstIdle /\ RunIdle /\ SharedIdle

CallRun ==
    /\ pc = "Run"
    /\ runRes' = Run(NewParser(NewLexer(stmt)))
    /\ pc' = IF runRes'.panic # "none" THEN "panic" ELSE "done"
    /\ UNCHANGED <<stmt, interpRes, ret, stages, lexVars, typesVars, walkVars, wsVars,
                   astVars,
                   runVars,
                   sharedVars>>

NextParse == CallRun

SpecParse == InitParse /\ [][NextParse]_vars

(***************************************************************************)
(* SpecAst: Run on a statement, then the methods of the returned root:     *)
(* String on the root, Begin and End on every node.  The methods are       *)
(* called on whatever Run returned, the nil root of a failed call too.     *)
(***************************************************************************)
InitAst == InitParse

CallString ==
    /\ pc = "done"
    /\ rendered = NotRun
    /\ rendered' = String(runRes.exp)
    /\ UNCHANGED <<pc, extents, lexVars, prepVars, typesVars, walkVars, wsVars,
                   runVars,
                   sharedVars>>

Extent(e) == [begin |-> Begin(e), end |-> End(e)]

\* Begin() and End() of the node at every path of the tree.
Extents(e) ==
    [path \in {PreOrder(e, <<>>)[i] : i \in DOMAIN PreOrder(e, <<>>)} |->
        Extent(NodeAt(e, path))]

CallBeginEnd ==
    /\ pc = "done"
    /\ extents = NotRun
    /\ extents' = Extents(runRes.exp)
    /\ UNCHANGED <<pc, rendered, lexVars, prepVars, typesVars, walkVars, wsVars,
                   runVars,
                   sharedVars>>

NextAst == CallRun \/ CallString \/ CallBeginEnd

SpecAst == InitAst /\ [][NextAst]_vars

(***************************************************************************)
(* SpecShared: Run has returned the tree, and MaxReaders goroutines call   *)
(* interpret, Walk, String, Begin or End on it at the same time.  A call   *)
(* of interpret or Walk visits one node per step; the steps of the calls   *)
(* interleave.  A call keeps its position, its seen map, its error and its *)
(* descriptor table in its own frame; tree is the only memory they share.  *)
(* A panic in one goroutine ends the program.                              *)
(***************************************************************************)
SharedTrees == ParsedTrees(MaxSharedFragments)

SharedArgValues == {"P{}", "A{}"}

\* The descriptor tables typesForStatement builds without an error.
DescriptorTables ==
    {typesForStatement(al).argTypes :
        al \in {a \in SeqsUpTo(SharedArgValues, MaxPrepareArgs) :
                   ~IsError(typesForStatement(a).err)}}

\* A call that has not started: its function, its visit function and the
\* descriptor table it was given.
Frame(fn, v, argTypes) ==
    [fn |-> fn, v |-> v, argTypes |-> argTypes,
     next |-> 1, w |-> WalkStart({}),
     at |-> IF fn \in {"interpret", "Walk"} THEN "walking" ELSE "called",
     res |-> NotRun]

Calls(e) ==
    {Frame("interpret", [kind |-> "interpret", argTypes |-> t], t) :
         t \in DescriptorTables}
    \cup {Frame("Walk", [kind |-> "failing", failing |-> f], EmptyTypeMap) :
              f \in SubsetsUpTo(Range(PreOrder(e, <<>>)), MaxFailing)}
    \cup {Frame(fn, [kind |-> "none"], EmptyTypeMap) :
              fn \in {"String", "Begin", "End"}}

InitShared ==
    /\ pc = "shared"
    /\ tree \in SharedTrees
    /\ readers \in [1..MaxReaders -> Calls(tree)]
    /\ failing = {}
    /\ walkRes = NotRun
    /\ LexIdle /\ PrepareIdle /\ TypesIdle /\ WsIdle /\ AstIdle /\ RunIdle

\* Walk in the frame rd visits the node of e it has come to: visit(parent),
\* then parent.Expressions(); the walk ends at the first error, and after
\* the last node.
WalkVisit(e, rd) ==
    LET paths == PreOrder(e, <<>>)
        path == paths[rd.next]
        parent == NodeAt(e, path)
        r == visit(rd.v, parent, path, rd.w.st)
        w == [rd.w EXCEPT !.st = r.st, !.log = Append(@, path)]
    IN  IF IsError(r.err)
        THEN [rd EXCEPT !.w = [w EXCEPT !.err = r.err], !.at = "walked"]
        ELSE IF parent.kind = "nil"
             THEN [rd EXCEPT !.w = [w EXCEPT !.panic = "nil dereference"],
                             !.at = "panicked"]
             ELSE [rd EXCEPT !.w = w, !.next = @ + 1,
                             !.at = IF rd.next = Len(paths)
                                    THEN "walked" ELSE "walking"]

\* The error of one call stored where every call reads it.
VisitSharedErr(rs, r, e) ==
    LET rd == WalkVisit(e, rs[r])
    IN  [q \in DOMAIN rs |->
            IF q = r
            THEN rd
            ELSE IF IsError(rd.w.err) /\ rs[q].at = "walking"
                 THEN [rs[q] EXCEPT !.w = [@ EXCEPT !.err = rd.w.err],
                                    !.at = "walked"]
                 ELSE rs[q]]

\* The frames after call r has visited a node: err, seen and the position
\* are locals of the call, so no other frame changes.
Visit(rs, r, e) == [rs EXCEPT ![r] = WalkVisit(e, rs[r])]

ReaderVisit(r) ==
    /\ pc = "shared"
    /\ readers[r].at = "walking"
    /\ \E rs \in {Visit(readers, r, tree)} :
          /\ readers' = rs
          /\ pc' = IF rs[r].at = "panicked" THEN "panic" ELSE "shared"
    /\ UNCHANGED <<lexVars, prepVars, typesVars, walkVars, wsVars, astVars,
                   runVars>>

\* Walk has returned to its caller: Walk's own caller gets the error,
\* interpret goes on to its loop over argTypes.
ReaderReturn(r) ==
    /\ pc = "shared"
    /\ readers[r].at = "walked"
    /\ \E out \in IF readers[r].fn = "interpret"
                  THEN interpretWalked(readers[r].argTypes, readers[r].w)
                  ELSE {[err |-> readers[r].w.err, panic |-> "none"]} :
          readers' = [readers EXCEPT ![r].res = out, ![r].at = "returned"]
    /\ UNCHANGED <<pc, lexVars, prepVars, typesVars, walkVars, wsVars,
                   astVars, runVars>>

\* What a call of String, Begin or End returns for the tree e.
Render(fn, e) ==
    CASE fn = "String" -> String(e)
      [] fn = "Begin" -> Begin(e)
      [] fn = "End" -> End(e)

ReaderRender(r) ==
    /\ pc = "shared"
    /\ readers[r].at = "called"
    /\ \E out \in {Render(readers[r].fn, tree)} :
          /\ readers' = [readers EXCEPT
                            ![r].res = out,
                            ![r].at = IF out.panic # "none"
                                      THEN "panicked" ELSE "returned"]
          /\ pc' = IF out.panic # "none" THEN "panic" ELSE "shared"
    /\ UNCHANGED <<lexVars, prepVars, typesVars, walkVars, wsVars, astVars,
                   runVars>>

NextShared ==
    \E r \in 1..MaxReaders :
        ReaderVisit(r) \/ ReaderReturn(r) \/ ReaderRender(r)

SpecShared == InitShared /\ [][NextShared]_vars

(***************************************************************************)
(* SpecRun: Run on the parser of a statement, one iteration of its loop    *)
(* at a time, and one iteration of the loop of parseGroup at a time for a  *)
(* group that starts at the top level.  A group inside a group is parsed   *)
(* within the iteration that meets it.                                     *)
(***************************************************************************)
InitRun ==
    /\ pc = "NewParser"
    /\ stmt \in ParseStatements(MaxParseFragments)
    /\ runRes = NotRun
    /\ interpRes = NotRun
    /\ ret = NotRun
    /\ stages = <<>>
    /\ RunIdle /\ SharedIdle
    /\ LexIdle /\ TypesIdle /\ WalkIdle /\ WsIdle /\ AstIdle /\ SharedIdle

RunNewParser ==
    /\ pc = "NewParser"
    /\ \E ps \in {NewParser(NewLexer(stmt))} : parser' = ps
    /\ pc' = "Run"
    /\ UNCHANGED <<rootChildren, groupChildren, commas, lexVars, prepVars,
                   typesVars, walkVars, wsVars, astVars,
                   sharedVars>>

\* Run up to its loop.
RunEnter ==
    /\ pc = "Run"
    /\ \E ps \in {RunStart(parser)} : parser' = ps
    /\ pc' = "loop"
    /\ UNCHANGED <<rootChildren, groupChildren, commas, lexVars, prepVars,
                   typesVars, walkVars, wsVars, astVars,
                   sharedVars>>

\* The rest of an iteration of Run's loop once the prefix function of its
\* first token has returned r.
FinishIteration(r) ==
    \E it \in {RunAppend(parseInfix(r, LOWEST), rootChildren)} :
        /\ parser' = it.ps
        /\ rootChildren' = it.children
        /\ pc' = IF Panicked(it.ps) THEN "panic" ELSE "loop"
        /\ groupChildren' = <<>>
        /\ commas' = 0

\* One iteration of Run's loop on a token that starts no group.
RunLoopStep ==
    /\ pc = "loop"
    /\ parser.currentToken.Type \notin {"EOF", "LPAREN"}
    /\ \E it \in {RunIteration(parser, rootChildren)} :
          /\ parser' = it.ps
          /\ rootChildren' = it.children
          /\ pc' = IF Panicked(it.ps) THEN "panic" ELSE "loop"
    /\ UNCHANGED <<groupChildren, commas, lexVars, prepVars,
                   typesVars, walkVars, wsVars, astVars,
                   sharedVars>>

\* parseGroup up to its loop.
GroupEnter ==
    /\ pc = "loop"
    /\ parser.currentToken.Type = "LPAREN"
    /\ \E ps \in {nextToken(parser)} :
          IF ps.currentToken.Type = "RPAREN"
          THEN \E r \in {parseGroupBody(ps)} : FinishIteration(r)
          ELSE /\ parser' = ps
               /\ groupChildren' = <<>>
               /\ commas' = 1
               /\ pc' = "group"
               /\ UNCHANGED rootChildren
    /\ UNCHANGED <<lexVars, prepVars, typesVars, walkVars, wsVars, astVars,
                   sharedVars>>

\* One iteration of the loop of parseGroup.
GroupLoopStep ==
    /\ pc = "group"
    /\ parser.currentToken.Type \notin {"RPAREN", "EOF"}
    /\ IF parser.currentToken.Type # "COMMA"
       THEN \E r \in {parseExpression(parser, LOWEST)} :
               IF Panicked(r.ps)
               THEN /\ parser' = r.ps
                    /\ pc' = "panic"
                    /\ UNCHANGED <<rootChildren, groupChildren, commas>>
               ELSE /\ \E ps \in {nextToken(r.ps)} : parser' = ps
                    /\ groupChildren' = Append(groupChildren, r.exp)
                    /\ commas' = 0
                    /\ pc' = "group"
                    /\ UNCHANGED rootChildren
       ELSE IF commas + 1 > 1
            THEN \E r \in {Ret(AddError(parser,
                                   UnexpectedError(parser.currentToken,
                                                   <<",">>, "LITERAL")),
                               NilExpression)} : FinishIteration(r)
            ELSE /\ \E ps \in {nextToken(parser)} : parser' = ps
                 /\ commas' = commas + 1
                 /\ pc' = "group"
                 /\ UNCHANGED <<rootChildren, groupChildren>>
    /\ UNCHANGED <<lexVars, prepVars, typesVars, walkVars, wsVars, astVars,
                   sharedVars>>

\* parseGroup after its loop.
GroupExit ==
    /\ pc = "group"
    /\ parser.currentToken.Type \in {"RPAREN", "EOF"}
    /\ \E r \in {parseGroupLoop(parser, groupChildren, commas)} :
          FinishIteration(r)
    /\ UNCHANGED <<lexVars, prepVars, typesVars, walkVars, wsVars, astVars,
                   sharedVars>>

\* Run after its loop.
RunExit ==
    /\ pc = "loop"
    /\ parser.currentToken.Type = "EOF"
    /\ \E r \in {RunReturn(parser, rootChildren)} : runRes' = r
    /\ pc' = "done"
    /\ UNCHANGED <<stmt, interpRes, ret, stages, runVars, lexVars,
                   typesVars, walkVars, wsVars, astVars,
                   sharedVars>>

NextRun ==
    \/ RunNewParser \/ RunEnter \/ RunLoopStep
    \/ GroupEnter \/ GroupLoopStep \/ GroupExit \/ RunExit

SpecRun == InitRun /\ [][NextRun]_vars

(***************************************************************************)
(* SpecWs: a statement and the same statement with other white space       *)
(* between its tokens and around it are tokenized, then parsed.            *)
(***************************************************************************)
RECURSIVE tokenSpansLoop(_)

tokenSpansNext(r) ==
    IF r.tok.Type = "EOF"
    THEN <<>>
    ELSE <<[start |-> r.tok.Pos.Offset, end |-> r.lex.offset]>>
             \o tokenSpansLoop(r.lex)

tokenSpansLoop(lx) == tokenSpansNext(NextToken(lx))

\* The byte ranges [start, end) the tokens of a statement take in its
\* trimmed text.
tokenSpans(text) == tokenSpansLoop(NewLexer(text))

\* The white space put after token i: none or a newline where the next
\* token follows at once, another run where white space follows.
Gap(input, spans, i, other) ==
    IF spans[i].end = spans[i + 1].start
    THEN IF other THEN <<"\n">> ELSE <<>>
    ELSE IF other THEN <<"\n">> ELSE <<" ", "\n", " ">>

RECURSIVE JoinTokens(_, _, _, _)
JoinTokens(input, spans, others, i) ==
    IF i > Len(spans) THEN <<>>
    ELSE SubSeq(input, spans[i].start + 1, spans[i].end)
             \o (IF i < Len(spans)
                 THEN Gap(input, spans, i, others[i])
                 ELSE <<>>)
             \o JoinTokens(input, spans, others, i + 1)

Variants(text) ==
    {(IF edges THEN <<" ", "\n">> ELSE <<>>)
         \o JoinTokens(TrimSpace(text), tokenSpans(text), others, 1)
         \o (IF edges THEN <<"\n", " ">> ELSE <<>>) :
             others \in [1..(Len(tokenSpans(text)) - 1) -> BOOLEAN],
             edges \in BOOLEAN}

WsAlphabet == {"&", "$", "x", ".", "1", "'", " "}

WsStatements == SeqsUpTo(WsAlphabet, MaxWsLen)

InitWs ==
    /\ pc = "tokenize"
    /\ stmt \in WsStatements
    /\ variant \in Variants(stmt)
    /\ toks = <<>>
    /\ variantToks = <<>>
    /\ runRes = NotRun
    /\ variantRes = NotRun
    /\ l = NotRun
    /\ interpRes = NotRun
    /\ ret = NotRun
    /\ stages = <<>>
    /\ TypesIdle /\ WalkIdle /\ AstIdle /\ RunIdle /\ SharedIdle

WsTokenize ==
    /\ pc = "tokenize"
    /\ toks' = tokensForStatement(stmt)
    /\ variantToks' = tokensForStatement(variant)
    /\ pc' = "parse"
    /\ UNCHANGED <<l, prepVars, typesVars, walkVars, variant, variantRes,
                   astVars,
                   runVars,
                   sharedVars>>

WsRun ==
    /\ pc = "parse"
    /\ runRes' = Run(NewParser(NewLexer(stmt)))
    /\ variantRes' = Run(NewParser(NewLexer(variant)))
    /\ pc' = "done"
    /\ UNCHANGED <<stmt, interpRes, ret, stages, lexVars, typesVars, walkVars,
                   variant, variantToks,
                   astVars,
                   runVars,
                   sharedVars>>

NextWs == WsTokenize \/ WsRun

SpecWs == InitWs /\ [][NextWs]_vars

(***************************************************************************)
(* Claims.                                                                 *)
(***************************************************************************)
IsAnnotation(e) == e.kind \in {"OutputTarget", "InputSource"}


\* The type names of the OutputTarget and InputSource nodes of a tree.
TypeNamesUsed(e) ==
    {IdentityString(TypeName(NodeAt(e, path))) :
         path \in {q \in Range(PreOrder(e, <<>>)) : IsAnnotation(NodeAt(e, q))}}

\* The pre-order positions of the annotations whose type name is not in D.
Unresolved(e, D) ==
    {i \in DOMAIN PreOrder(e, <<>>) :
         /\ IsAnnotation(NodeAt(e, PreOrder(e, <<>>)[i]))
         /\ IdentityString(TypeName(NodeAt(e, PreOrder(e, <<>>)[i]))) \notin D}

Least(S) == CHOOSE i \in S : \A j \in S : i <= j

InterpretRan == Len(stages) = 3

InterpretReturnedNil ==
    interpRes.panic = "none" /\ ~IsError(interpRes.err)

\* C1: interpret(T, D) returns no error if and only if the set of type
\* names used by the OutputTarget and InputSource nodes of T equals the
\* set of names of D.
C1_Coverage ==
    InterpretRan =>
        (InterpretReturnedNil
            <=> TypeNamesUsed(runRes.exp) = DOMAIN typesRes.argTypes)

\* C2: when some annotation of the tree has a type name absent from the
\* table, interpret returns ErrTypeInfoNotPresent with the name of the
\* first such annotation in pre-order, whatever else the table holds.
C2_UnresolvedAnnotation ==
    (InterpretRan /\ Unresolved(runRes.exp, DOMAIN typesRes.argTypes) # {}) =>
        /\ interpRes.panic = "none"
        /\ interpRes.err =
              NewErrTypeInfoNotPresent(
                  IdentityString(TypeName(NodeAt(runRes.exp,
                      PreOrder(runRes.exp, <<>>)[
                          Least(Unresolved(runRes.exp,
                                           DOMAIN typesRes.argTypes))]))))

\* C3: when every annotation resolves and some table name is referenced
\* by no annotation, interpret returns ErrSuperfluousType with a table
\* name no annotation references; it never returns ErrSuperfluousType
\* with a name some annotation references.
C3_SuperfluousType ==
    InterpretRan =>
        /\ (/\ TypeNamesUsed(runRes.exp) \subseteq DOMAIN typesRes.argTypes
            /\ DOMAIN typesRes.argTypes \ TypeNamesUsed(runRes.exp) # {}) =>
              /\ interpRes.panic = "none"
              /\ interpRes.err.kind = "ErrSuperfluousType"
              /\ interpRes.err.name \in
                    DOMAIN typesRes.argTypes \ TypeNamesUsed(runRes.exp)
        /\ interpRes.err.kind = "ErrSuperfluousType" =>
              interpRes.err.name \notin TypeNamesUsed(runRes.exp)

\* The positions of the arguments whose descriptor name repeats the name of
\* an earlier argument.
Repeats(argList) ==
    {j \in DOMAIN argList :
         \E i \in 1..(j - 1) :
             Reflect(argList[i]).info.name = Reflect(argList[j]).info.name}

\* C4: for arguments that all reflect successfully, typesForStatement
\* fails if and only if two arguments have descriptors of equal name; it
\* then returns no table and ErrTypeNameNotUnique with the name of the
\* earliest argument that repeats an earlier name; otherwise the table
\* holds exactly one entry per argument, keyed by its descriptor name.
C4_Uniqueness ==
    (/\ pc = "done"
     /\ typesRes # NotRun
     /\ \A i \in DOMAIN args : ~IsError(Reflect(args[i]).err)) =>
        /\ IsError(typesRes.err) <=> Repeats(args) # {}
        /\ Repeats(args) # {} =>
              /\ typesRes.isNil
              /\ typesRes.err =
                    NewErrTypeNameNotUnique(
                        Reflect(args[Least(Repeats(args))]).info.name)
        /\ Repeats(args) = {} =>
              /\ ~typesRes.isNil
              /\ DOMAIN typesRes.argTypes =
                    {Reflect(args[i]).info.name : i \in DOMAIN args}
              /\ Cardinality(DOMAIN typesRes.argTypes) = Len(args)
              /\ \A i \in DOMAIN args :
                    typesRes.argTypes[Reflect(args[i]).info.name] =
                        Reflect(args[i]).info

C4_Witness ==
    /\ pc = "done"
    /\ args = <<"P{}", "A{}", "A{}", "other.P{}">>
    /\ typesRes.isNil
    /\ typesRes.err = NewErrTypeNameNotUnique(<<"A">>)

RunFailed == Len(stages) >= 1 /\ IsError(runRes.err)

TypesFailed == Len(stages) >= 2 /\ IsError(typesRes.err)

InterpretFailed == Len(stages) >= 3 /\ IsError(interpRes.err)

\* C5: Prepare runs Run, typesForStatement and interpret in this order and
\* stops at the first that fails, returning its error and a nil Statement;
\* it returns a Statement, of Run's tree and typesForStatement's table, if
\* and only if all three succeeded; after a parser error neither
\* typesForStatement nor interpret is run.
C5_StageOrder ==
    /\ \E n \in 0..3 :
          stages = SubSeq(<<"Run", "typesForStatement", "interpret">>, 1, n)
    /\ RunFailed =>
          stages = <<"Run">> /\ typesRes = NotRun /\ interpRes = NotRun
    /\ TypesFailed =>
          stages = <<"Run", "typesForStatement">> /\ interpRes = NotRun
    /\ pc = "done" =>
          /\ RunFailed => ret = Return(NilStatement, runRes.err)
          /\ TypesFailed => ret = Return(NilStatement, typesRes.err)
          /\ InterpretFailed => ret = Return(NilStatement, interpRes.err)
          /\ ret.statement # NilStatement <=>
                /\ InterpretRan
                /\ ~RunFailed /\ ~TypesFailed /\ ~InterpretFailed
          /\ ret.statement # NilStatement =>
                ret = Return(Statement(runRes.exp, typesRes.argTypes), NoError)
    /\ pc # "done" => ret = NotRun

C5_Witness ==
    /\ pc = "done"
    /\ stmt = <<"&", "P", ".", "*">>
    /\ args = <<"P{}", "P{}">>
    /\ stages = <<"Run", "typesForStatement">>
    /\ ret = Return(NilStatement, NewErrTypeNameNotUnique(<<"P">>))

\* C6: for every statement text and every argument list, Prepare and the
\* stages it runs end by returning, and never in a panic.
C6_NoCrash == pc # "panic"

\* C7: Walk calls visit on the nodes in pre-order; once a visit call has
\* returned an error no further call is made and Walk returns that error,
\* so the nodes visited are the prefix of the tree's pre-order sequence
\* that ends at the failing node.
C7_ShortCircuit ==
    (pc # "Walk" /\ walkRes # NotRun) =>
        /\ Len(walkRes.log) <= Len(PreOrder(tree, <<>>))
        /\ walkRes.log = SubSeq(PreOrder(tree, <<>>), 1, Len(walkRes.log))
        /\ \A i \in DOMAIN walkRes.log :
              walkRes.log[i] \in failing =>
                  /\ i = Len(walkRes.log)
                  /\ walkRes.panic = "none"
                  /\ walkRes.err = VisitError(walkRes.log[i])
        /\ IsError(walkRes.err) =>
              /\ walkRes.log # <<>>
              /\ walkRes.log[Len(walkRes.log)] \in failing

C7_Witness ==
    /\ pc = "done"
    /\ tree = TestWalkTree
    /\ failing = {<<1, 1>>}
    /\ walkRes.log = << <<>>, <<1>>, <<1, 1>> >>
    /\ walkRes.err = VisitError(<<1, 1>>)

\* C8: when visit returns nil for every node, Walk visits every node of
\* the tree exactly once, in pre-order, and returns nil.
C8_FullTraversal ==
    (pc # "Walk" /\ walkRes # NotRun /\ failing = {}) =>
        /\ walkRes.panic = "none"
        /\ ~IsError(walkRes.err)
        /\ walkRes.log = PreOrder(tree, <<>>)

RECURSIVE DotCount(_)
DotCount(s) ==
    IF s = <<>> THEN 0
    ELSE (IF Head(s) = "." THEN 1 ELSE 0) + DotCount(Tail(s))

Literals(ts) == [i \in 1..Len(ts) |-> ts[i].Literal]

\* C9: once NextToken has returned an end-of-input token, every later call
\* on the same lexer returns an end-of-input token again, with the same
\* position and an empty literal, and never a token of another kind.
C9_IdempotentTail ==
    pc = "lex" =>
        \A i, j \in 1..Len(toks) :
            (i < j /\ toks[i].Type = "EOF") =>
                /\ toks[j].Type = "EOF"
                /\ toks[j].Literal = <<>>
                /\ toks[j].Pos = toks[i].Pos

C9_Witness ==
    /\ pc = "lex"
    /\ Len(toks) >= 3
    /\ toks[1].Type # "EOF"
    /\ toks[Len(toks) - 1].Type = "EOF"
    /\ toks[Len(toks)].Type = "EOF"

\* C10: every NUM token's literal is the input text at its offset, begins
\* with a digit and holds at most one "."; the token ends only before a
\* character that is no digit, and when that character is "." the literal
\* already holds its one "." and the next token is that "." as a PERIOD;
\* so 1.2.3 gives 1.2 . 3 and 100000.5.6 gives 100000.5 . 6.
C10_NumberTokens ==
    pc = "lex" =>
        /\ \A i \in 1..Len(toks) :
              toks[i].Type = "NUM" =>
                LET lit    == toks[i].Literal
                    off    == toks[i].Pos.Offset
                    endOff == off + Len(lit)
                IN  /\ lit # <<>>
                    /\ lit = SubSeq(l.input, off + 1, endOff)
                    /\ isDigit(lit[1])
                    /\ DotCount(lit) <= 1
                    /\ endOff < Len(l.input) =>
                          /\ ~isDigit(l.input[endOff + 1])
                          /\ l.input[endOff + 1] = "." =>
                                /\ DotCount(lit) = 1
                                /\ i < Len(toks) =>
                                      /\ toks[i + 1].Type = "PERIOD"
                                      /\ toks[i + 1].Literal = <<".">>
                                      /\ toks[i + 1].Pos.Offset = endOff
        /\ (l.input = <<"1", ".", "2", ".", "3">> /\ Len(toks) >= 3) =>
              SubSeq(Literals(toks), 1, 3) =
                  << <<"1", ".", "2">>, <<".">>, <<"3">> >>
        /\ (l.input = <<"1", "0", "0", "0", "0", "0", ".", "5", ".", "6">>
                /\ Len(toks) >= 3) =>
              SubSeq(Literals(toks), 1, 3) =
                  << <<"1", "0", "0", "0", "0", "0", ".", "5">>, <<".">>, <<"6">> >>

C10_Witness ==
    /\ pc = "lex"
    /\ l.input = <<"1", ".", "2", ".", "3">>
    /\ Len(toks) = 4
    /\ toks[1].Type = "NUM"
    /\ toks[2].Type = "PERIOD"
    /\ toks[3].Type = "NUM"
    /\ toks[4].Type = "EOF"

Quote == "'"

\* The index in s of the quote that closes a string whose text after the
\* opening quote starts at index i: the first quote that is not the first
\* of a doubled quote; 0 when there is none.
RECURSIVE ClosingQuote(_, _)
ClosingQuote(s, i) ==
    IF i > Len(s) THEN 0
    ELSE IF s[i] = Quote
         THEN IF i + 1 <= Len(s) /\ s[i + 1] = Quote
              THEN ClosingQuote(s, i + 2)
              ELSE i
         ELSE ClosingQuote(s, i + 1)

\* C11: a STRING token starts at a quote and ends at the first later quote
\* that closes it, a doubled quote inside the string not ending it; its
\* literal is the source text from the opening to the closing quote; so
\* 'Onos T''oolan', '' and  are one STRING token each.
C11_QuotedStrings ==
    pc = "lex" =>
        /\ \A i \in DOMAIN toks :
              toks[i].Type = "STRING" =>
                  /\ l.input[toks[i].Pos.Offset + 1] = Quote
                  /\ ClosingQuote(l.input, toks[i].Pos.Offset + 2) # 0 =>
                        toks[i].Literal =
                            SubSeq(l.input, toks[i].Pos.Offset + 1,
                                   ClosingQuote(l.input, toks[i].Pos.Offset + 2))
        /\ (/\ l.input \in
                 { <<"'", "O", "n", "o", "s", " ", "T", "'", "'", "o", "o",
                      "l", "a", "n", "'">>,
                    <<"'", "'">>,
                    <<"'", "'", "'", " ", "'", "'", "'">> }
            /\ toks # <<>>) =>
              /\ toks[1].Type = "STRING"
              /\ toks[1].Literal = l.input
              /\ Len(toks) >= 2 => toks[2].Type = "EOF"

\* C12: when the input ends before the closing quote of a string, the
\* STRING token's literal is the source text from the opening quote to the
\* end of the input, its position is that of the opening quote, and the
\* token after it is the end of input.
C12_UnterminatedString ==
    pc = "lex" =>
        \A i \in DOMAIN toks :
            (/\ toks[i].Type = "STRING"
             /\ ClosingQuote(l.input, toks[i].Pos.Offset + 2) = 0) =>
                /\ l.input[toks[i].Pos.Offset + 1] = Quote
                /\ toks[i].Literal =
                      SubSeq(l.input, toks[i].Pos.Offset + 1, Len(l.input))
                /\ i < Len(toks) => toks[i + 1].Type = "EOF"

\* The rune at byte offset off of the input, and its size.
RuneAt(input, off) ==
    DecodeRuneInString(SubSeq(input, off + 1, Len(input)))

\* A character that is no white space, punctuation, digit, letter,
\* underscore or quote.
IsUnknownChar(c) ==
    /\ ~IsSpace(c)
    /\ c \notin DOMAIN knownRuneTokens
    /\ ~isDigit(c)
    /\ ~IsLetter(c)
    /\ c # "_"
    /\ c # Quote

\* C13: a character that is no white space, punctuation, digit, letter,
\* underscore or quote is returned as one UNKNOWN token whose literal is
\* that character; one character is consumed, and the next token is the
\* one that starts at the first character after it that is no white space.
C13_UnknownCharacters ==
    pc = "lex" =>
        \A i \in DOMAIN toks :
            (/\ toks[i].Pos.Offset < Len(l.input)
             /\ IsUnknownChar(RuneAt(l.input, toks[i].Pos.Offset).r)) =>
                /\ toks[i].Type = "UNKNOWN"
                /\ toks[i].Literal =
                      SubSeq(l.input, toks[i].Pos.Offset + 1,
                             toks[i].Pos.Offset
                                 + RuneAt(l.input, toks[i].Pos.Offset).size)
                /\ i < Len(toks) =>
                      toks[i + 1].Pos.Offset =
                          skipWhitespace(
                              nextChar([l EXCEPT
                                  !.readOffset = toks[i].Pos.Offset
                                      + RuneAt(l.input, toks[i].Pos.Offset).size])
                          ).offset

RunReturnedTree ==
    /\ pc = "done"
    /\ runRes # NotRun
    /\ ~IsError(runRes.err)

TokenTypes(ts) == [i \in DOMAIN ts |-> ts[i].Type]

\* The positions in ts of the markers followed by a name, a period and a
\* field that is an identifier or an asterisk.
AnnotationStarts(ts) ==
    {i \in DOMAIN ts :
         /\ ts[i].Type \in {"BITAND", "DOLLAR"}
         /\ i + 3 <= Len(ts)
         /\ ts[i + 1].Type = "IDENT"
         /\ ts[i + 2].Type = "PERIOD"
         /\ ts[i + 3].Type \in {"IDENT", "ASTERISK"}}

\* Every marker of ts starts an annotation.
WellFormedAnnotations(ts) ==
    \A i \in DOMAIN ts :
        ts[i].Type \in {"BITAND", "DOLLAR"} => i \in AnnotationStarts(ts)

InAnnotation(ts, i) == \E j \in AnnotationStarts(ts) : j <= i /\ i <= j + 3

RECURSIVE SelectIndexes(_, _, _)
\* The elements of seq at the positions of keep, in order, from position i.
SelectIndexes(seq, keep, i) ==
    IF i > Len(seq) THEN <<>>
    ELSE (IF i \in keep THEN <<seq[i]>> ELSE <<>>)
             \o SelectIndexes(seq, keep, i + 1)

\* The tokens of ts outside the annotations.
PassThroughTokens(ts) ==
    SelectIndexes(ts, {i \in DOMAIN ts : ~InAnnotation(ts, i)}, 1)

Parent(path) == SubSeq(path, 1, Len(path) - 1)

\* The positions in the pre-order of e of the Identity nodes that are not
\* the name or the field of an annotation.
PassThroughLeafIndexes(e) ==
    LET pre == PreOrder(e, <<>>)
    IN  {i \in DOMAIN pre :
             /\ NodeAt(e, pre[i]).kind = "Identity"
             /\ ~IsAnnotation(NodeAt(e, Parent(pre[i])))}

NodeTokens(e, paths) == [i \in DOMAIN paths |-> NodeAt(e, paths[i]).token]

PassThroughLeaves(e) ==
    NodeTokens(e, SelectIndexes(PreOrder(e, <<>>), PassThroughLeafIndexes(e), 1))

HasNilNode(e) ==
    \E i \in DOMAIN PreOrder(e, <<>>) :
        NodeAt(e, PreOrder(e, <<>>)[i]).kind = "nil"

\* C14: in the tree Run returns for a statement without column groups,
\* the tokens outside the annotations are, in source order, the Identity
\* leaves outside the annotation nodes, one leaf per token, and no child
\* is absent; this holds for ".", "[" and unknown characters too.
C14_PassThrough ==
    RunReturnedTree =>
        LET ts == tokensForStatement(stmt)
        IN  ("LPAREN" \notin Range(TokenTypes(ts)) /\ WellFormedAnnotations(ts)) =>
                /\ ~HasNilNode(runRes.exp)
                /\ PassThroughLeaves(runRes.exp) = PassThroughTokens(ts)

KindsAndLiterals(ts) ==
    [i \in DOMAIN ts |-> [Type |-> ts[i].Type, Literal |-> ts[i].Literal]]

\* An expression tree without the positions of its tokens.
RECURSIVE Shape(_)
Shape(e) ==
    CASE e.kind = "Identity" ->
            [kind |-> "Identity", Type |-> e.token.Type,
             Literal |-> e.token.Literal]
      [] IsAnnotation(e) ->
            [kind |-> e.kind, name |-> Shape(e.name), field |-> Shape(e.field)]
      [] e.kind \in {"SQL", "GroupedColumns"} ->
            [kind |-> e.kind,
             children |-> [i \in DOMAIN e.children |-> Shape(e.children[i])]]
      [] OTHER -> e

\* What Run returned, without positions: the tree's shape, whether an
\* error was returned, whether the call panicked.
ResultShape(r) ==
    [exp |-> Shape(r.exp), failed |-> IsError(r.err), panic |-> r.panic]

\* C15: a statement and the statement with other white space between its
\* tokens and around it have the same sequence of token kinds and
\* literals, and Run gives both the same tree up to token positions, with
\* the same annotations.
C15_WhitespaceInsensitive ==
    /\ pc \in {"parse", "done"} =>
          KindsAndLiterals(toks) = KindsAndLiterals(variantToks)
    /\ (pc = "done" /\ variantRes # NotRun) =>
          /\ ResultShape(runRes) = ResultShape(variantRes)
          /\ TypeNamesUsed(runRes.exp) = TypeNamesUsed(variantRes.exp)

C15_Witness ==
    /\ pc = "done"
    /\ stmt = <<"&", "x", ".", "x">>
    /\ variant = <<" ", "\n", "&", "\n", "x", "\n", ".", "\n", "x", "\n", " ">>
    /\ Len(toks) = 4
    /\ runRes.exp.children[1].kind = "OutputTarget"
    /\ variantRes.exp.children[1].kind = "OutputTarget"

RECURSIVE NewlineCount(_)
NewlineCount(s) ==
    IF s = <<>> THEN 0
    ELSE (IF Head(s) = "\n" THEN 1 ELSE 0) + NewlineCount(Tail(s))

\* The number of characters of the byte sequence s.
RECURSIVE RuneCount(_)
RuneCount(s) ==
    IF s = <<>> THEN 0
    ELSE 1 + RuneCount(SubSeq(s, DecodeRuneInString(s).size + 1, Len(s)))

\* The text of s after its last newline.
RECURSIVE LastLine(_)
LastLine(s) ==
    IF s = <<>> \/ s[Len(s)] = "\n"
    THEN <<>>
    ELSE Append(LastLine(SubSeq(s, 1, Len(s) - 1)), s[Len(s)])

\* C16: for every token but the end of input, Pos.Offset is the byte
\* index in the trimmed input of the token's first character, Pos.Line is
\* 1 plus the number of newlines before it and Pos.Column is 1 plus the
\* number of characters between the preceding newline, or the start of
\* the input, and the token.
C16_TokenPositions ==
    pc = "lex" =>
        \A i \in DOMAIN toks :
            toks[i].Type # "EOF" =>
                /\ toks[i].Pos.Offset < Len(l.input)
                /\ ~IsSpace(RuneAt(l.input, toks[i].Pos.Offset).r)
                /\ SubSeq(toks[i].Literal, 1,
                          Len(RuneString(RuneAt(l.input, toks[i].Pos.Offset).r)))
                      = RuneString(RuneAt(l.input, toks[i].Pos.Offset).r)
                /\ i > 1 => toks[i - 1].Pos.Offset < toks[i].Pos.Offset
                /\ toks[i].Pos.Line =
                      1 + NewlineCount(SubSeq(l.input, 1, toks[i].Pos.Offset))
                /\ toks[i].Pos.Column =
                      1 + RuneCount(LastLine(SubSeq(l.input, 1,
                                                    toks[i].Pos.Offset)))

C16_Witness ==
    /\ pc = "lex"
    /\ l.input = <<"0xC3", "0xA9", " ", "a", "\n", "0xC3", "0xA9", "1", " ", "#">>
    /\ Len(toks) = 4
    /\ toks[2].Pos = Position(3, 1, 3)
    /\ toks[3].Pos = Position(5, 2, 1)
    /\ toks[4].Pos = Position(9, 2, 4)

\* The elements of a set of positions of seq, in increasing order.
Ascending(seq, S) == SelectIndexes([i \in DOMAIN seq |-> i], S, 1)

\* The annotation nodes of a tree, in pre-order.
AnnotationNodes(e) ==
    LET pre  == PreOrder(e, <<>>)
        anns == SelectIndexes(pre, {i \in DOMAIN pre : IsAnnotation(NodeAt(e, pre[i]))}, 1)
    IN  [k \in DOMAIN anns |-> NodeAt(e, anns[k])]

AnnotationKind(marker) ==
    IF marker.Type = "BITAND" THEN "OutputTarget" ELSE "InputSource"

\* C17: for a statement whose every marker is followed by an identifier,
\* a period and an identifier or asterisk, Run does not panic, and the
\* tree it returns has, in source order, one OutputTarget node per "&" and
\* one InputSource node per "$", whose marker, name and field are the
\* first, second and fourth token of the annotation; no other node
\* carries one of the annotation's tokens.
C17_AnnotationRecognition ==
    (pc \in {"done", "panic"} /\ runRes # NotRun) =>
        LET ts     == tokensForStatement(stmt)
            starts == Ascending(ts, AnnotationStarts(ts))
            nodes  == AnnotationNodes(runRes.exp)
            leaves == Range(PassThroughLeaves(runRes.exp))
        IN  WellFormedAnnotations(ts) =>
                /\ runRes.panic = "none"
                /\ ~IsError(runRes.err) =>
                      /\ Len(nodes) = Len(starts)
                      /\ \A k \in DOMAIN nodes :
                            nodes[k] =
                                [kind |-> AnnotationKind(ts[starts[k]]),
                                 marker |-> ts[starts[k]],
                                 name |-> IdentityExpression(ts[starts[k] + 1]),
                                 field |-> IdentityExpression(ts[starts[k] + 3])]
                      /\ \A i \in DOMAIN ts :
                            InAnnotation(ts, i) => ts[i] \notin leaves

C17_Witness ==
    /\ pc = "done"
    /\ stmt = <<"&", "P", ".", "*", "$", "A", ".", "a">>
    /\ ~IsError(runRes.err)
    /\ Len(runRes.exp.children) = 2
    /\ runRes.exp.children[1].kind = "OutputTarget"
    /\ runRes.exp.children[1].field.token.Literal = <<"*">>
    /\ runRes.exp.children[2].kind = "InputSource"
    /\ runRes.exp.children[2].name.token.Literal = <<"A">>

RECURSIVE eofTokenLoop(_)

eofTokenNext(r) == IF r.tok.Type = "EOF" THEN r.tok ELSE eofTokenLoop(r.lex)

eofTokenLoop(lx) == eofTokenNext(NextToken(lx))

\* Token i of a statement whose tokens are ts, the end-of-input token
\* after the last one.
TokenOrEof(text, ts, i) ==
    IF i <= Len(ts) THEN ts[i] ELSE eofTokenLoop(NewLexer(text))

Markers(ts) == {i \in DOMAIN ts : ts[i].Type \in {"BITAND", "DOLLAR"}}

\* The first marker of ts is a marker of type markerType followed by a
\* name and then by a token that is no period.
FirstMarkerLacksPeriod(text, ts, markerType) ==
    /\ Markers(ts) # {}
    /\ ts[Least(Markers(ts))].Type = markerType
    /\ Least(Markers(ts)) + 1 <= Len(ts)
    /\ ts[Least(Markers(ts)) + 1].Type = "IDENT"
    /\ TokenOrEof(text, ts, Least(Markers(ts)) + 2).Type # "PERIOD"

\* The error message for the token after the name of the first marker.
MissingPeriodError(text, ts) ==
    UnexpectedError(TokenOrEof(text, ts, Least(Markers(ts)) + 2),
                    TokenOrEof(text, ts, Least(Markers(ts)) + 2).Literal,
                    "PERIOD")

\* C18: when the token after the type name of the statement's first "&"
\* annotation is no period, Run returns an error that holds exactly one
\* message naming that token with its line and column, and no tree, so
\* no OutputTarget node.
C18_OutputTargetWithoutPeriod ==
    (pc \in {"done", "panic"} /\ runRes # NotRun) =>
        LET ts == tokensForStatement(stmt)
        IN  FirstMarkerLacksPeriod(stmt, ts, "BITAND") =>
                /\ runRes.panic = "none"
                /\ runRes.err.kind = "parse"
                /\ Cardinality({k \in DOMAIN runRes.err.msgs :
                        runRes.err.msgs[k] = MissingPeriodError(stmt, ts)}) = 1
                /\ runRes.exp = NilExpression

TokenIndex(ts, tok) == CHOOSE i \in DOMAIN ts : ts[i] = tok

\* C19: every InputSource node of a tree Run returns comes from a "$"
\* followed by a name, a period and a field; when the token after the
\* name of the statement's first "$" annotation is no period, Run
\* returns an error and no InputSource node.
C19_InputSourceShape ==
    (pc \in {"done", "panic"} /\ runRes # NotRun) =>
        LET ts    == tokensForStatement(stmt)
            nodes == AnnotationNodes(runRes.exp)
        IN  /\ \A k \in DOMAIN nodes :
                  nodes[k].kind = "InputSource" =>
                      /\ nodes[k].name.token = ts[TokenIndex(ts, nodes[k].marker) + 1]
                      /\ ts[TokenIndex(ts, nodes[k].marker) + 2].Type = "PERIOD"
                      /\ nodes[k].field.token = ts[TokenIndex(ts, nodes[k].marker) + 3]
            /\ FirstMarkerLacksPeriod(stmt, ts, "DOLLAR") =>
                  /\ runRes.panic = "none"
                  /\ IsError(runRes.err)
                  /\ runRes.exp = NilExpression

\* C20: in every tree Run returns, the field of every OutputTarget and
\* InputSource node is an identifier token or the asterisk token.
C20_FieldKind ==
    RunReturnedTree =>
        \A k \in DOMAIN AnnotationNodes(runRes.exp) :
            AnnotationNodes(runRes.exp)[k].field.token.Type
                \in {"IDENT", "ASTERISK"}

\* The message parseGroup records for the token tok.
GroupError(tok) ==
    IF tok.Type = "EOF"
    THEN UnexpectedError(tok, <<"E", "O", "F">>, ")")
    ELSE UnexpectedError(tok, tok.Literal, "LITERAL")

\* The statement starts with a malformed group: "()", "(," or a "("
\* followed by names only up to the end of input.
StartsWithMalformedGroup(ts) ==
    /\ Len(ts) >= 1
    /\ ts[1].Type = "LPAREN"
    /\ \/ Len(ts) >= 2 /\ ts[2].Type \in {"RPAREN", "COMMA"}
       \/ \A i \in 2..Len(ts) : ts[i].Type = "IDENT"

\* The offending token of the malformed group a statement starts with.
OffendingToken(text, ts) ==
    IF Len(ts) >= 2 /\ ts[2].Type \in {"RPAREN", "COMMA"}
    THEN ts[2]
    ELSE TokenOrEof(text, ts, Len(ts) + 1)

\* The messages of an error are in source order.
InSourceOrder(msgs) ==
    \A i, j \in DOMAIN msgs :
        i < j => \/ msgs[i].line < msgs[j].line
                 \/ /\ msgs[i].line = msgs[j].line
                    /\ msgs[i].column <= msgs[j].column

\* C21: a statement that starts with a malformed group makes Run go on
\* to the end of input and return an error and no tree; the first message
\* of the error is the one for the offending token of that group (the ")"
\* of "()", the "," of "(,", the end of input of an unclosed group), and
\* the messages are in source order.
C21_GroupErrorsAccumulate ==
    (pc \in {"done", "panic"} /\ runRes # NotRun) =>
        LET ts == tokensForStatement(stmt)
        IN  StartsWithMalformedGroup(ts) =>
                /\ runRes.panic = "none"
                /\ runRes.err.kind = "parse"
                /\ runRes.exp = NilExpression
                /\ runRes.err.msgs[1] = GroupError(OffendingToken(stmt, ts))
                /\ InSourceOrder(runRes.err.msgs)

\* The GroupedColumns nodes of a tree.
GroupNodes(e) ==
    LET pre == PreOrder(e, <<>>)
    IN  {NodeAt(e, pre[i]) : i \in
            {j \in DOMAIN pre : NodeAt(e, pre[j]).kind = "GroupedColumns"}}

\* The children of the group g are Identity nodes that stand in ts as
\* "(" item ("," item)* ")".
MatchesGroupGrammar(ts, g) ==
    LET items == Expressions(g)
    IN  /\ Len(items) >= 1
        /\ \A k \in DOMAIN items : items[k].kind = "Identity"
        /\ TokenIndex(ts, items[1].token) > 1
        /\ ts[TokenIndex(ts, items[1].token) - 1].Type = "LPAREN"
        /\ \A k \in 1..(Len(items) - 1) :
              /\ TokenIndex(ts, items[k + 1].token)
                     = TokenIndex(ts, items[k].token) + 2
              /\ ts[TokenIndex(ts, items[k].token) + 1].Type = "COMMA"
        /\ TokenIndex(ts, items[Len(items)].token) < Len(ts)
        /\ ts[TokenIndex(ts, items[Len(items)].token) + 1].Type = "RPAREN"

\* C22: every GroupedColumns node of a tree Run returns without error
\* has Identity children only, one per listed item, and its tokens are
\* "(" item ("," item)* ")": no two items without a comma between them,
\* no comma before the ")".
C22_GroupGrammar ==
    RunReturnedTree =>
        LET ts == tokensForStatement(stmt)
        IN  \A g \in GroupNodes(runRes.exp) : MatchesGroupGrammar(ts, g)

\* C23: whenever Run returns, with or without an error, the root it
\* returns is not nil; for a statement without tokens the root has no
\* children and the error is the empty-statement message.
C23_RootAlwaysReturned ==
    (pc = "done" /\ runRes # NotRun) =>
        /\ runRes.exp # NilExpression
        /\ runRes.exp.kind = "SQL"
        /\ tokensForStatement(stmt) = <<>> =>
              /\ runRes.exp.children = <<>>
              /\ runRes.err = ParseError(<<EmptyStatementError>>)

\* The kinds and literals of the four tokens an annotation node was
\* built from.
AnnotationTokens(n) ==
    << [Type |-> n.marker.Type, Literal |-> n.marker.Literal],
       [Type |-> n.name.token.Type, Literal |-> n.name.token.Literal],
       [Type |-> "PERIOD", Literal |-> <<".">>],
       [Type |-> n.field.token.Type, Literal |-> n.field.token.Literal] >>

\* C24: for a statement Run parses without error, String on the root
\* returns a text whose tokens have the kinds and literals of the
\* statement's tokens; String on every OutputTarget and InputSource node
\* is marker, name, "." and field and has the four tokens the node was
\* built from.
C24_RenderRoundTrip ==
    (RunReturnedTree /\ rendered # NotRun) =>
        /\ rendered.panic = "none"
        /\ KindsAndLiterals(tokensForStatement(rendered.text))
               = KindsAndLiterals(tokensForStatement(stmt))
        /\ \A k \in DOMAIN AnnotationNodes(runRes.exp) :
              LET n == AnnotationNodes(runRes.exp)[k]
              IN  /\ String(n) = Text(n.marker.Literal \o n.name.token.Literal
                                      \o <<".">> \o n.field.token.Literal)
                  /\ KindsAndLiterals(tokensForStatement(String(n).text))
                         = AnnotationTokens(n)

\* A position of the source text: lines and columns count from 1.
IsSourcePosition(pos) == pos.Line >= 1 /\ pos.Column >= 1

\* The offset just past the token tok.
PastToken(tok) == tok.Pos.Offset + Len(tok.Literal)

\* C27: for every node of a tree Run returns, Begin and End return
\* positions with Line >= 1 and Column >= 1 and Begin().Offset <
\* End().Offset; Begin is the position of the node's first token (the
\* token of an Identity, the marker of an annotation, the "(" of a group,
\* the first token of the statement for the root) and End lies just past
\* its last token (the token of an Identity, the field of an annotation,
\* the ")" of a group).
C27_BeginEndSpans ==
    (RunReturnedTree /\ extents # NotRun) =>
        LET ts == tokensForStatement(stmt)
        IN  \A path \in DOMAIN extents :
              LET n == NodeAt(runRes.exp, path)
                  b == extents[path].begin
                  e == extents[path].end
              IN  /\ b.panic = "none" /\ e.panic = "none"
                  /\ IsSourcePosition(b.pos) /\ IsSourcePosition(e.pos)
                  /\ b.pos.Offset < e.pos.Offset
                  /\ n.kind = "Identity" =>
                        /\ b.pos = n.token.Pos
                        /\ e.pos.Offset = PastToken(n.token)
                  /\ IsAnnotation(n) =>
                        /\ b.pos = n.marker.Pos
                        /\ e.pos.Offset = PastToken(n.field.token)
                  /\ n.kind = "GroupedColumns" =>
                        /\ \E i \in DOMAIN ts : /\ ts[i].Type = "LPAREN"
                                                /\ b.pos = ts[i].Pos
                        /\ \E i \in DOMAIN ts : /\ ts[i].Type = "RPAREN"
                                                /\ e.pos.Offset = PastToken(ts[i])
                  /\ n.kind = "SQL" => b.pos = ts[1].Pos

\* C30: the outcome of interpret is determined by the tree and the
\* descriptor table: what a call returned is the only outcome a call
\* with this tree and this table can have, the error kind and the
\* offending name included.
C30_DeterministicValidation ==
    InterpretRan =>
        interpret(runRes.exp, typesRes.argTypes) = {interpRes}

\* The arguments typesForStatement fails on when it gets to them: those
\* whose reflection fails and those whose name an earlier one has.
Failures(argList) ==
    {i \in DOMAIN argList : IsError(Reflect(argList[i]).err)}
        \cup Repeats(argList)

\* C26: typesForStatement reflects the arguments in the order given and
\* stops at the first one that fails: it returns the error of Reflect
\* unchanged, or the not-unique error for a repeated name, together with
\* a nil table, and has called Reflect for no later argument.  Without a
\* failing argument all arguments are reflected and a table is returned.
C26_StopsAtFirstFailure ==
    (pc = "done" /\ typesRes # NotRun) =>
        IF Failures(args) = {}
        THEN /\ ~IsError(typesRes.err)
             /\ ~typesRes.isNil
             /\ typesRes.reflected = Len(args)
        ELSE /\ typesRes.isNil
             /\ typesRes.argTypes = EmptyTypeMap
             /\ typesRes.reflected = Least(Failures(args))
             /\ typesRes.err =
                    IF IsError(Reflect(args[Least(Failures(args))]).err)
                    THEN Reflect(args[Least(Failures(args))]).err
                    ELSE NewErrTypeNameNotUnique(
                             Reflect(args[Least(Failures(args))]).info.name)

\* An argument whose reflection fails stands before a repeated name and
\* after a good argument: the error of Reflect is returned and the later
\* arguments were not reflected.
C26_Witness ==
    /\ pc = "done"
    /\ args = <<"A{}", "BadTag{}", "A{}", "P{}">>
    /\ typesRes.isNil
    /\ typesRes.err = Reflect("BadTag{}").err
    /\ typesRes.reflected = 2

\* The tokens returned so far that are no end-of-input tokens.
NonEofTokens == SelectSeq(toks, LAMBDA t : t.Type # "EOF")

\* The offsets of the input the token t covers.
Covered(t) == t.Pos.Offset .. (t.Pos.Offset + Len(t.Literal) - 1)

\* C28: at every point of a lexer run the tokens returned so far, the
\* end-of-input tokens aside, are not empty, follow each other at
\* increasing offsets without overlap, and have as literal the input
\* text at their offset; every character before the cursor that no token
\* covers is white space; an end-of-input token has been returned only
\* with the cursor at the end of the trimmed input.
C28_LosslessTokenization ==
    pc = "lex" =>
        /\ \A i \in DOMAIN NonEofTokens :
              /\ Len(NonEofTokens[i].Literal) >= 1
              /\ NonEofTokens[i].Pos.Offset + Len(NonEofTokens[i].Literal)
                     <= Len(l.input)
              /\ NonEofTokens[i].Literal =
                     SubSeq(l.input, NonEofTokens[i].Pos.Offset + 1,
                            NonEofTokens[i].Pos.Offset
                                + Len(NonEofTokens[i].Literal))
              /\ i < Len(NonEofTokens) =>
                     NonEofTokens[i].Pos.Offset + Len(NonEofTokens[i].Literal)
                         <= NonEofTokens[i + 1].Pos.Offset
        /\ \A k \in 0..(l.offset - 1) :
              \/ \E i \in DOMAIN NonEofTokens : k \in Covered(NonEofTokens[i])
              \/ IsSpace(l.input[k + 1])
        /\ EofCount(toks) > 0 => l.offset >= Len(l.input)

\* The place of the token tok in the token stream ts: the end-of-input
\* token stands after the last token; 0 for a token that is not in the
\* stream.
TokenNumber(ts, tok) ==
    IF tok.Type = "EOF"
    THEN Len(ts) + 1
    ELSE IF \E i \in DOMAIN ts : ts[i] = tok THEN TokenIndex(ts, tok) ELSE 0

\* The two-token buffer holds two tokens that follow each other in the
\* token stream of the statement.
BufferInOrder ==
    parser # NotRun =>
        LET ts == tokensForStatement(stmt)
        IN  \E k \in 1..(Len(ts) + 1) :
               /\ parser.currentToken = TokenOrEof(stmt, ts, k)
               /\ parser.peekToken = TokenOrEof(stmt, ts, k + 1)

\* A step inside Run never moves the buffer back, and a step that is an
\* iteration of Run's loop or of the loop of parseGroup, or that enters a
\* group, moves it forward by at least one token.
IterationConsumes ==
    (pc \in {"loop", "group"} /\ pc' \in {"loop", "group"}) =>
        LET ts     == tokensForStatement(stmt)
            before == TokenNumber(ts, parser.currentToken)
            after  == TokenNumber(ts, parser'.currentToken)
        IN  /\ after >= before
            /\ ~(pc = "group" /\ pc' = "loop") => after > before

RunEnded == pc \in {"done", "panic"}

\* The guards of the steps of Run: in every position before the end the
\* code has a next step to take.
CanStep ==
    \/ pc = "NewParser"
    \/ pc = "Run"
    \/ pc = "loop" /\ parser.currentToken.Type \notin {"EOF", "LPAREN"}
    \/ pc = "loop" /\ parser.currentToken.Type = "LPAREN"
    \/ pc = "loop" /\ parser.currentToken.Type = "EOF"
    \/ pc = "group" /\ parser.currentToken.Type \notin {"RPAREN", "EOF"}
    \/ pc = "group" /\ parser.currentToken.Type \in {"RPAREN", "EOF"}

\* The tokens of the stream ts from currentToken on.
Remaining(ts, ps) ==
    IF ps = NotRun
    THEN Len(ts) + 2
    ELSE Len(ts) + 1 - TokenNumber(ts, ps.currentToken)

PcRank(at) ==
    CASE at = "NewParser" -> 4
      [] at = "Run"       -> 3
      [] at = "group"     -> 2
      [] at = "loop"      -> 1
      [] OTHER            -> 0

\* The tokens left come first, the position in the code second.
Variant(ts, ps, at) == 5 * Remaining(ts, ps) + PcRank(at)

VariantDecreases ==
    LET ts == tokensForStatement(stmt)
    IN  Variant(ts, parser', pc') < Variant(ts, parser, pc)

\* C29: Run on a statement ends: before the end there is always a step
\* to take and every step lowers a natural number, the count of the
\* tokens left and then the position in the code.  Between the steps the
\* two-token buffer holds two consecutive tokens of the statement's
\* token stream; every iteration of Run's loop and of the loop of
\* parseGroup moves the buffer forward by at least one token and no step
\* moves it back; when Run has returned, currentToken is the
\* end-of-input token.
C29_ParserProgress ==
    /\ [](RunEnded \/ CanStep)
    /\ [][VariantDecreases]_vars
    /\ []BufferInOrder
    /\ [][IterationConsumes]_vars
    /\ [](pc = "done" => parser.currentToken.Type = "EOF")

\* Run has returned after the loop of parseGroup went through the name,
\* the comma and the name of an unclosed group.
C29_Witness ==
    /\ pc = "done"
    /\ stmt = <<"(", "x", ",", "x">>
    /\ parser.currentToken.Type = "EOF"
    /\ Len(runRes.err.msgs) = 1


\* What the call of the frame rd returns when nothing else runs from its
\* first step to its last: the outcomes of the function on the tree e.
SequentialOutcomes(rd, e) ==
    CASE rd.fn = "interpret" -> interpret(e, rd.argTypes)
      [] rd.fn = "Walk" ->
            {[err |-> w.err, panic |-> w.panic] :
                w \in {Walk(e, <<>>, rd.v, WalkStart({}))}}
      [] OTHER -> {Render(rd.fn, e)}

\* How the call of the frame rd has ended.
Outcome(rd) ==
    IF rd.at = "panicked" /\ rd.fn \in {"interpret", "Walk"}
    THEN [err |-> NoError, panic |-> rd.w.panic]
    ELSE rd.res

Ended(rd) == rd.at \in {"returned", "panicked"}

\* The nodes a finished walk has visited are the nodes Walk visits alone,
\* in the same order.
SameVisits(rd, e) ==
    rd.fn \in {"interpret", "Walk"} /\ rd.at # "walking" =>
        rd.w.log = Walk(e, <<>>, rd.v, WalkStart({})).log

TablesUnchanged ==
    \A r \in DOMAIN readers : readers'[r].argTypes = readers[r].argTypes

\* C25: no step of a call of interpret, Walk, String, Begin or End changes
\* the tree or a descriptor table, and every call that runs at the same
\* time as other calls on the same root ends as it can end when it runs
\* alone: with the same error, rendering, position or panic, after
\* visiting the same nodes in the same order.
C25_SharedReadOnlyAst ==
    /\ [][tree' = tree]_vars
    /\ [][TablesUnchanged]_vars
    /\ [](\A r \in DOMAIN readers :
             /\ Ended(readers[r]) =>
                    Outcome(readers[r]) \in SequentialOutcomes(readers[r], tree)
             /\ SameVisits(readers[r], tree))

\* Call 1 of interpret has returned ErrTypeInfoNotPresent while call 2 of
\* interpret, with another table, is in the middle of its walk of the same
\* tree and has seen a type.
C25_Witness ==
    /\ pc = "shared"
    /\ readers[1].fn = "interpret" /\ readers[2].fn = "interpret"
    /\ readers[1].at = "returned"
    /\ readers[1].res.err.kind = "ErrTypeInfoNotPresent"
    /\ readers[2].at = "walking"
    /\ readers[2].next > 1
    /\ readers[2].w.st # {}
    /\ readers[2].argTypes # readers[1].argTypes

=============================================================================
